---- MODULE Spec2Model ----
(***************************************************************************)
(* Bingo pattern matcher and waiting-number analyser, with the game        *)
(* session that feeds it (GameScreen + gameSession + patternService).      *)
(*                                                                         *)
(* Cards and pattern grids are 5x5, indexed 0..4 as in the source.         *)
(* A cell value is an integer; the string 'FREE' of the source is the      *)
(* sentinel FREE and the unset placeholder 0 is UNSET.                     *)
(* Arrays are sequences (1-based), JavaScript Sets are sequences without   *)
(* repetition kept in insertion order (what Array.from(set) returns).      *)
(***************************************************************************)
EXTENDS Integers, Sequences, FiniteSets, TLC

\* ------------------------------------------------------------------ bounds

\* How many entries of PoolOrder the caller may call or remove.
PoolSize == 4

\* The numbers the caller types, in the order the bound admits them.
PoolOrder == <<1, 16, 2, 75, 17, 61, 47, 33>>

CallPool == {PoolOrder[i] : i \in 1..(IF PoolSize < Len(PoolOrder) THEN PoolSize ELSE Len(PoolOrder))}

\* How many streams of random draws the card generator may see.
SeedCount == 4

\* The largest limit getClosestPatterns is asked for (its default is 3).
MaxLimit == 3

\* ------------------------------------------------------------- card model

FREE == -1
UNSET == 0
MinBingoNumber == 1
MaxBingoNumber == 75

Idx == 0..4

COLUMNS == <<"B", "I", "N", "G", "O">>

\* Seq helpers --------------------------------------------------------------

Range(s) == {s[i] : i \in 1..Len(s)}

\* Array.prototype.includes
Includes(s, x) == \E i \in 1..Len(s) : s[i] = x

\* Array.prototype.filter with a predicate given as a set of kept values
RECURSIVE FilterOut(_, _)
FilterOut(s, x) ==
  IF s = <<>> THEN <<>>
  ELSE IF Head(s) = x THEN FilterOut(Tail(s), x)
       ELSE <<Head(s)>> \o FilterOut(Tail(s), x)

\* Set.prototype.add on an insertion-ordered set
SetAdd(s, x) == IF Includes(s, x) THEN s ELSE Append(s, x)

\* The numbers of a finite set in ascending order
SortSet(S) ==
  <<>> \o [k \in 1..Cardinality(S) |->
            CHOOSE x \in S : Cardinality({y \in S : y < x}) = k - 1]

\* forEach(num => s.add(num)) for the numbers of one pair or line
RECURSIVE SetAddAll(_, _)
SetAddAll(s, xs) ==
  IF xs = <<>> THEN s ELSE SetAddAll(SetAdd(s, Head(xs)), Tail(xs))

\* A bug the claims must catch: the numbers of all paths, repeats included
SetFromKeepAll(xs) == xs

\* A new Set filled by adding xs in order: the first occurrence of every
\* element, in order
SetFrom(xs) ==
  LET first == {i \in 1..Len(xs) : \A j \in 1..(i - 1) : xs[j] # xs[i]}
      kept == SortSet(first)
  IN <<>> \o [k \in 1..Len(kept) |-> xs[kept[k]]]

RECURSIVE Flatten(_)
Flatten(ss) == IF ss = <<>> THEN <<>> ELSE Head(ss) \o Flatten(Tail(ss))

\* Array.prototype.sort((a, b) => a - b): the k-th element is the number x
\* with fewer than k elements below it and at least k elements up to it
SortAsc(s) ==
  <<>> \o [k \in 1..Len(s) |->
            CHOOSE x \in Range(s) :
              /\ Cardinality({i \in 1..Len(s) : s[i] < x}) < k
              /\ Cardinality({i \in 1..Len(s) : s[i] <= x}) >= k]

\* A card as generateBingoCard lays it out: cell (r, c) holds val[r][c],
\* the centre is FREE and marked, nothing else is marked.
MakeCard(id, val, freeMarked, stale) ==
  [id |-> id,
   cells |-> [r \in Idx |-> [c \in Idx |->
      IF r = 2 /\ c = 2
      THEN [column |-> "N", value |-> FREE, marked |-> freeMarked]
      ELSE [column |-> COLUMNS[c + 1], value |-> val[r][c],
            marked |-> (val[r][c] \in stale)]]]]

\* Column c holds 15c+1 .. 15c+15; both layouts are duplicate free.
ValuesA == [r \in Idx |-> [c \in Idx |-> 15 * c + r + 1]]
ValuesB == [r \in Idx |-> [c \in Idx |-> 15 * c + ((r + c) % 5) + 1]]

\* cardA: as stored right after generateBingoCard.
\* cardB: as stored by the manual creator (createEmptyCard leaves FREE
\* unmarked) and later re-saved with marks from markNumber.
CardA == MakeCard("cardA", ValuesA, TRUE, {})
CardB == MakeCard("cardB", ValuesB, FALSE, {16, 50})

StoredCards == <<CardA, CardB>>

\* ---------------------------------------------------------- pattern model

createEmptyPattern == [r \in Idx |-> [c \in Idx |-> FALSE]]

GridOf(cellset) == [r \in Idx |-> [c \in Idx |-> <<r, c>> \in cellset]]

createDikitPattern == GridOf({<<0, 0>>, <<0, 1>>})
createPatongPattern == GridOf({<<0, 0>>, <<1, 0>>})
createHorizontalLinePattern == GridOf({<<0, c>> : c \in Idx})
createVerticalLinePattern == GridOf({<<r, 0>> : r \in Idx})
createDiagonalLinePattern == GridOf({<<i, i>> : i \in Idx})
createFullHousePattern == [r \in Idx |-> [c \in Idx |-> TRUE]]
createFourCornersPattern == GridOf({<<0, 0>>, <<0, 4>>, <<4, 0>>, <<4, 4>>})
createXPattern == GridOf({<<i, i>> : i \in Idx} \cup {<<i, 4 - i>> : i \in Idx})
createPlusPattern == GridOf({<<2, c>> : c \in Idx} \cup {<<r, 2>> : r \in Idx})
createPostageStampPattern == GridOf({<<0, 0>>, <<0, 1>>, <<1, 0>>, <<1, 1>>})

createPattern(id, name, grid) == [id |-> id, name |-> name, grid |-> grid]

\* validatePattern on a 5 x 5 grid: at least one square is selected
validatePattern(grid) == \E row \in Idx : \E col \in Idx : grid[row][col]

SpecialNames == {"Dikit", "Patong", "Horizontal Line", "Vertical Line", "Diagonal Line"}

isBuiltInPattern(patternName) == patternName \in SpecialNames \cup {"Full House"}

\* The user patterns kept in storage, saved from the pattern creator: four
\* of the predefined grids and two drawn ones (one of them a single cell).
StoredPatterns ==
  << createPattern("p_corners", "Four Corners", createFourCornersPattern),
     createPattern("p_x", "X-Shape", createXPattern),
     createPattern("p_plus", "Plus Sign", createPlusPattern),
     createPattern("p_stamp", "Postage Stamp (Top-Left)", createPostageStampPattern),
     createPattern("p_custom", "My Pattern", GridOf({<<0, 1>>, <<1, 1>>, <<4, 4>>})),
     createPattern("p_single", "Lucky Cell", GridOf({<<1, 0>>})) >>

hasBuiltInName(p) == isBuiltInPattern(p.name)

RECURSIVE userPatternsOf(_)
userPatternsOf(saved) ==
  IF saved = <<>> THEN <<>>
  ELSE IF hasBuiltInName(Head(saved)) THEN userPatternsOf(Tail(saved))
       ELSE <<Head(saved)>> \o userPatternsOf(Tail(saved))

builtInPatterns ==
  << createPattern("builtin_dikit", "Dikit", createDikitPattern),
     createPattern("builtin_patong", "Patong", createPatongPattern),
     createPattern("builtin_horizontal_line", "Horizontal Line", createHorizontalLinePattern),
     createPattern("builtin_vertical_line", "Vertical Line", createVerticalLinePattern),
     createPattern("builtin_diagonal_line", "Diagonal Line", createDiagonalLinePattern),
     createPattern("builtin_full_house", "Full House", createFullHousePattern) >>

getAllPatterns(saved) == builtInPatterns \o userPatternsOf(saved)

\* ------------------------------------------------------- pattern matcher

Cell(card, pos) == card.cells[pos[1]][pos[2]]

\* Candidate pairs in the order the nested loops visit them.
DikitPairs ==
  [k \in 1..20 |-> LET row == (k - 1) \div 4
                       col == (k - 1) % 4
                   IN <<<<row, col>>, <<row, col + 1>>>>]

PatongPairs ==
  [k \in 1..20 |-> LET row == (k - 1) \div 5
                       col == (k - 1) % 5
                   IN <<<<row, col>>, <<row + 1, col>>>>]

\* Candidate lines, each a sequence of five positions in loop order.
RowLines == [row \in 1..5 |-> [col \in 1..5 |-> <<row - 1, col - 1>>]]
ColLines == [col \in 1..5 |-> [row \in 1..5 |-> <<row - 1, col - 1>>]]
MainDiagonal == [i \in 1..5 |-> <<i - 1, i - 1>>]
AntiDiagonal == [i \in 1..5 |-> <<i - 1, 4 - (i - 1)>>]

TouchesFree(card, pair) ==
  Cell(card, pair[1]).value = FREE \/ Cell(card, pair[2]).value = FREE

B2N(b) == IF b THEN 1 ELSE 0

PairMarkedCount(card, pair) ==
  B2N(Cell(card, pair[1]).marked) + B2N(Cell(card, pair[2]).marked)

\* pathMissing of one pair: left first, then right
PairMissing(card, pair) ==
  (IF Cell(card, pair[1]).marked THEN <<>> ELSE <<Cell(card, pair[1]).value>>)
  \o (IF Cell(card, pair[2]).marked THEN <<>> ELSE <<Cell(card, pair[2]).value>>)

\* markedCount of one line: every marked cell counts, FREE included
LineMarkedCount(card, line) ==
  Cardinality({i \in 1..5 : Cell(card, line[i]).marked})

\* rowMissing / colMissing / mainMissing: unmarked cells that are not FREE
RECURSIVE LineMissingFrom(_, _, _)
LineMissingFrom(card, line, i) ==
  IF i > 5 THEN <<>>
  ELSE LET cell == Cell(card, line[i])
       IN (IF ~cell.marked /\ cell.value # FREE THEN <<cell.value>> ELSE <<>>)
          \o LineMissingFrom(card, line, i + 1)

\* A bug the claims must catch: only the first missing number is listed
LineMissingFirstOnly(card, line) ==
  IF LineMissingFrom(card, line, 1) = <<>> THEN <<>>
  ELSE <<Head(LineMissingFrom(card, line, 1))>>

LineMissing(card, line) == LineMissingFrom(card, line, 1)

LineComplete(card, line) == \A i \in 1..5 : Cell(card, line[i]).marked

\* A bug the claims must catch: a required cell that is marked wins
checkStandardPatternAnyCell(card, pattern) ==
  \E row \in Idx : \E col \in Idx :
    pattern.grid[row][col] /\ card.cells[row][col].marked

\* The standard loop: false at the first required cell that is not marked
checkStandardPattern(card, pattern) ==
  \A row \in Idx : \A col \in Idx :
    ~(pattern.grid[row][col] /\ ~card.cells[row][col].marked)

checkPattern(card, pattern) ==
  IF pattern.name = "Dikit"
  THEN \E k \in 1..20 : /\ ~TouchesFree(card, DikitPairs[k])
                        /\ Cell(card, DikitPairs[k][1]).marked
                        /\ Cell(card, DikitPairs[k][2]).marked
  ELSE IF pattern.name = "Patong"
  THEN \E k \in 1..20 : /\ ~TouchesFree(card, PatongPairs[k])
                        /\ Cell(card, PatongPairs[k][1]).marked
                        /\ Cell(card, PatongPairs[k][2]).marked
  ELSE IF pattern.name = "Horizontal Line"
  THEN \E row \in 1..5 : LineComplete(card, RowLines[row])
  ELSE IF pattern.name = "Vertical Line"
  THEN \E col \in 1..5 : LineComplete(card, ColLines[col])
  ELSE IF pattern.name = "Diagonal Line"
  THEN LineComplete(card, MainDiagonal) \/ LineComplete(card, AntiDiagonal)
  ELSE checkStandardPattern(card, pattern)

\* The Dikit/Patong loop of getMissingNumbers from pair i on, with the
\* running bestPairMarkedCount and missingSet.
RECURSIVE ScanPairsMissing(_, _, _, _, _)
ScanPairsMissing(card, pairs, i, best, missingSet) ==
  IF i > Len(pairs) THEN missingSet
  ELSE IF TouchesFree(card, pairs[i])
  THEN ScanPairsMissing(card, pairs, i + 1, best, missingSet)
  ELSE LET markedCount == PairMarkedCount(card, pairs[i])
           better == markedCount > 0 /\ markedCount > best
           best1 == IF better THEN markedCount ELSE best
           set1 == IF better THEN <<>> ELSE missingSet
           set2 == IF markedCount > 0 /\ markedCount = best1
                   THEN SetAddAll(set1, PairMissing(card, pairs[i]))
                   ELSE set1
       IN ScanPairsMissing(card, pairs, i + 1, best1, set2)

\* A bug the claims must catch: a better row does not clear the missing set
RECURSIVE ScanLinesMissingNoReset(_, _, _, _, _)
ScanLinesMissingNoReset(card, lines, i, best, missingSet) ==
  IF i > Len(lines) THEN missingSet
  ELSE LET markedCount == LineMarkedCount(card, lines[i])
           best1 == IF markedCount > best THEN markedCount ELSE best
           set2 == IF markedCount > 0 /\ markedCount = best1
                   THEN SetAddAll(missingSet, LineMissing(card, lines[i]))
                   ELSE missingSet
       IN ScanLinesMissingNoReset(card, lines, i + 1, best1, set2)

\* The row/column loop of getMissingNumbers.
RECURSIVE ScanLinesMissing(_, _, _, _, _)
ScanLinesMissing(card, lines, i, best, missingSet) ==
  IF i > Len(lines) THEN missingSet
  ELSE LET markedCount == LineMarkedCount(card, lines[i])
           better == markedCount > 0 /\ markedCount > best
           best1 == IF better THEN markedCount ELSE best
           set1 == IF better THEN <<>> ELSE missingSet
           set2 == IF markedCount > 0 /\ markedCount = best1
                   THEN SetAddAll(set1, LineMissing(card, lines[i]))
                   ELSE set1
       IN ScanLinesMissing(card, lines, i + 1, best1, set2)

Max(a, b) == IF a > b THEN a ELSE b

\* The standard scan: required, unmarked, not FREE, in row-major order.
RECURSIVE StandardMissingFrom(_, _, _)
StandardMissingFrom(card, pattern, k) ==
  IF k > 24 THEN <<>>
  ELSE LET row == k \div 5
           col == k % 5
           cell == card.cells[row][col]
       IN (IF pattern.grid[row][col] /\ ~cell.marked /\ cell.value # FREE
           THEN <<cell.value>> ELSE <<>>)
          \o StandardMissingFrom(card, pattern, k + 1)

getMissingNumbers(card, pattern) ==
  IF pattern.name = "Dikit"
  THEN ScanPairsMissing(card, DikitPairs, 1, 0, <<>>)
  ELSE IF pattern.name = "Patong"
  THEN ScanPairsMissing(card, PatongPairs, 1, 0, <<>>)
  ELSE IF pattern.name = "Horizontal Line"
  THEN ScanLinesMissing(card, RowLines, 1, 0, <<>>)
  ELSE IF pattern.name = "Vertical Line"
  THEN ScanLinesMissing(card, ColLines, 1, 0, <<>>)
  ELSE IF pattern.name = "Diagonal Line"
  THEN LET mainMarkedCount == LineMarkedCount(card, MainDiagonal)
           antiMarkedCount == LineMarkedCount(card, AntiDiagonal)
           bestDiagonalMarkedCount == Max(mainMarkedCount, antiMarkedCount)
           set1 == IF bestDiagonalMarkedCount > 0 /\ mainMarkedCount = bestDiagonalMarkedCount
                   THEN SetAddAll(<<>>, LineMissing(card, MainDiagonal)) ELSE <<>>
       IN IF bestDiagonalMarkedCount > 0 /\ antiMarkedCount = bestDiagonalMarkedCount
          THEN SetAddAll(set1, LineMissing(card, AntiDiagonal)) ELSE set1
  ELSE StandardMissingFrom(card, pattern, 0)

\* A bug the claims must catch: on pot as soon as the best missing set is
\* at most one number per tied candidate
isOnPotPerCandidate(card, pattern) ==
  LET missing == getMissingNumbers(card, pattern)
  IN Len(missing) = 1
     \/ /\ pattern.name \in {"Dikit", "Patong"}
        /\ Len(missing) > 1

isOnPot(card, pattern) == Len(getMissingNumbers(card, pattern)) = 1

\* A bug the claims must catch: pairs without a marked cell are kept
RECURSIVE ScanPairsPathsZeroProgress(_, _, _, _, _)
ScanPairsPathsZeroProgress(card, pairs, i, best, paths) ==
  IF i > Len(pairs) THEN paths
  ELSE IF TouchesFree(card, pairs[i])
  THEN ScanPairsPathsZeroProgress(card, pairs, i + 1, best, paths)
  ELSE LET markedCount == PairMarkedCount(card, pairs[i])
           better == markedCount > best
           best1 == IF better THEN markedCount ELSE best
           paths1 == IF better THEN <<>> ELSE paths
           pathMissing == PairMissing(card, pairs[i])
           paths2 == IF markedCount = best1 /\ Len(pathMissing) > 0
                     THEN Append(paths1, pathMissing)
                     ELSE paths1
       IN ScanPairsPathsZeroProgress(card, pairs, i + 1, best1, paths2)

\* The Dikit/Patong loop of getWinningPaths.
RECURSIVE ScanPairsPaths(_, _, _, _, _)
ScanPairsPaths(card, pairs, i, best, paths) ==
  IF i > Len(pairs) THEN paths
  ELSE IF TouchesFree(card, pairs[i])
  THEN ScanPairsPaths(card, pairs, i + 1, best, paths)
  ELSE LET markedCount == PairMarkedCount(card, pairs[i])
           better == markedCount > 0 /\ markedCount > best
           best1 == IF better THEN markedCount ELSE best
           paths1 == IF better THEN <<>> ELSE paths
           pathMissing == PairMissing(card, pairs[i])
           paths2 == IF markedCount > 0 /\ markedCount = best1 /\ Len(pathMissing) > 0
                     THEN Append(paths1, pathMissing)
                     ELSE paths1
       IN ScanPairsPaths(card, pairs, i + 1, best1, paths2)

\* A bug the claims must catch: a tie keeps only the first best row
RECURSIVE ScanLinesPathsFirstBest(_, _, _, _, _)
ScanLinesPathsFirstBest(card, lines, i, best, paths) ==
  IF i > Len(lines) THEN paths
  ELSE LET markedCount == LineMarkedCount(card, lines[i])
           better == markedCount > 0 /\ markedCount > best
           lineMissing == LineMissing(card, lines[i])
       IN ScanLinesPathsFirstBest(card, lines, i + 1,
            IF better THEN markedCount ELSE best,
            IF better THEN (IF Len(lineMissing) > 0 THEN <<lineMissing>> ELSE <<>>)
            ELSE paths)

\* The row/column loop of getWinningPaths.
RECURSIVE ScanLinesPaths(_, _, _, _, _)
ScanLinesPaths(card, lines, i, best, paths) ==
  IF i > Len(lines) THEN paths
  ELSE LET markedCount == LineMarkedCount(card, lines[i])
           better == markedCount > 0 /\ markedCount > best
           best1 == IF better THEN markedCount ELSE best
           paths1 == IF better THEN <<>> ELSE paths
           lineMissing == LineMissing(card, lines[i])
           paths2 == IF markedCount > 0 /\ markedCount = best1 /\ Len(lineMissing) > 0
                     THEN Append(paths1, lineMissing)
                     ELSE paths1
       IN ScanLinesPaths(card, lines, i + 1, best1, paths2)

\* A bug the claims must catch: the single path is returned even when empty
standardPathsAlways(card, pattern) == <<StandardMissingFrom(card, pattern, 0)>>

\* Standard patterns: one way to win, or none left
standardPaths(card, pattern) ==
  LET missing == StandardMissingFrom(card, pattern, 0)
  IN IF Len(missing) > 0 THEN <<missing>> ELSE <<>>

getWinningPaths(card, pattern) ==
  IF pattern.name = "Dikit"
  THEN ScanPairsPaths(card, DikitPairs, 1, 0, <<>>)
  ELSE IF pattern.name = "Patong"
  THEN ScanPairsPaths(card, PatongPairs, 1, 0, <<>>)
  ELSE IF pattern.name = "Horizontal Line"
  THEN ScanLinesPaths(card, RowLines, 1, 0, <<>>)
  ELSE IF pattern.name = "Vertical Line"
  THEN ScanLinesPaths(card, ColLines, 1, 0, <<>>)
  ELSE IF pattern.name = "Diagonal Line"
  THEN LET mainMarkedCount == LineMarkedCount(card, MainDiagonal)
           antiMarkedCount == LineMarkedCount(card, AntiDiagonal)
           mainMissing == LineMissing(card, MainDiagonal)
           antiMissing == LineMissing(card, AntiDiagonal)
           bestDiagonalMarkedCount == Max(mainMarkedCount, antiMarkedCount)
           paths1 == IF /\ bestDiagonalMarkedCount > 0
                        /\ mainMarkedCount = bestDiagonalMarkedCount
                        /\ Len(mainMissing) > 0
                     THEN <<mainMissing>> ELSE <<>>
       IN IF /\ bestDiagonalMarkedCount > 0
             /\ antiMarkedCount = bestDiagonalMarkedCount
             /\ Len(antiMissing) > 0
          THEN Append(paths1, antiMissing) ELSE paths1
  ELSE standardPaths(card, pattern)

\* ------------------------------------------------ waiting-number analyser

\* pathIndex: undefined
NoIndex == -1

\* Number of true cells of a grid (the counting loops of the analyser)
GridCount(grid) ==
  Cardinality({pos \in Idx \X Idx : grid[pos[1]][pos[2]]})

\* A bug the claims must catch: a pattern with nothing missing counts as on pot
analyzeCardForPatternOnPotAtMostOne(card, pattern) ==
  LET isWinner == checkPattern(card, pattern)
      missing == getMissingNumbers(card, pattern)
      pairPattern == pattern.name = "Dikit" \/ pattern.name = "Patong"
      totalRequired == IF pairPattern THEN 2 ELSE 2 + GridCount(pattern.grid)
      totalMarked == IF pairPattern
                     THEN (IF Len(missing) = 0 THEN 2 ELSE 1)
                     ELSE totalRequired - Len(missing)
  IN [cardId |-> card.id, patternId |-> pattern.id, patternName |-> pattern.name,
      isWinner |-> isWinner, isOnPot |-> Len(missing) <= 1, missingNumbers |-> missing,
      totalRequired |-> totalRequired, totalMarked |-> totalMarked,
      pathIndex |-> NoIndex]

analyzeCardForPattern(card, pattern) ==
  LET isWinner == checkPattern(card, pattern)
      missing == getMissingNumbers(card, pattern)
      onPot == isOnPot(card, pattern)
      pairPattern == pattern.name = "Dikit" \/ pattern.name = "Patong"
      \* totalRequired starts at 2 and the counting loop increments it
      totalRequired == IF pairPattern THEN 2 ELSE 2 + GridCount(pattern.grid)
      totalMarked == IF pairPattern
                     THEN (IF Len(missing) = 0 THEN 2 ELSE 1)
                     ELSE totalRequired - Len(missing)
  IN [cardId |-> card.id, patternId |-> pattern.id, patternName |-> pattern.name,
      isWinner |-> isWinner, isOnPot |-> onPot, missingNumbers |-> missing,
      totalRequired |-> totalRequired, totalMarked |-> totalMarked,
      pathIndex |-> NoIndex]

\* A bug the claims must catch: the count of a standard pattern starts at
\* the Dikit/Patong default instead of 0
pathTotalRequiredNoReset(pattern) ==
  IF pattern.name \in {"Horizontal Line", "Vertical Line", "Diagonal Line"} THEN 5
  ELSE IF pattern.name # "Dikit" /\ pattern.name # "Patong" THEN 2 + GridCount(pattern.grid)
  ELSE 2

\* totalRequired of a path record, by pattern category
pathTotalRequired(pattern) ==
  IF pattern.name \in {"Horizontal Line", "Vertical Line", "Diagonal Line"} THEN 5
  ELSE IF pattern.name # "Dikit" /\ pattern.name # "Patong" THEN GridCount(pattern.grid)
  ELSE 2

\* A bug the claims must catch: paths are pushed whatever their progress
RECURSIVE pathRecordsFromNoGuard(_, _, _, _)
pathRecordsFromNoGuard(card, pattern, paths, i) ==
  IF i > Len(paths) THEN <<>>
  ELSE LET pathMissing == paths[i]
           totalRequired == pathTotalRequired(pattern)
           rest == pathRecordsFromNoGuard(card, pattern, paths, i + 1)
       IN << [cardId |-> card.id, patternId |-> pattern.id,
               patternName |-> pattern.name, isWinner |-> FALSE,
               isOnPot |-> Len(pathMissing) = 1, missingNumbers |-> pathMissing,
               totalRequired |-> totalRequired,
               totalMarked |-> totalRequired - Len(pathMissing),
               pathIndex |-> IF Len(paths) > 1 THEN i - 1 ELSE NoIndex] >> \o rest

\* The records the path loop pushes for paths i.. of one (card, pattern)
RECURSIVE pathRecordsFrom(_, _, _, _)
pathRecordsFrom(card, pattern, paths, i) ==
  IF i > Len(paths) THEN <<>>
  ELSE LET pathMissing == paths[i]
           totalRequired == pathTotalRequired(pattern)
           totalMarked == totalRequired - Len(pathMissing)
           onPot == Len(pathMissing) = 1
           rest == pathRecordsFrom(card, pattern, paths, i + 1)
       IN IF Len(pathMissing) = 0 THEN rest
          ELSE IF totalMarked > 0
          THEN << [cardId |-> card.id, patternId |-> pattern.id,
                   patternName |-> pattern.name, isWinner |-> FALSE,
                   isOnPot |-> onPot, missingNumbers |-> pathMissing,
                   totalRequired |-> totalRequired, totalMarked |-> totalMarked,
                   pathIndex |-> IF Len(paths) > 1 THEN i - 1 ELSE NoIndex] >> \o rest
          ELSE rest

\* The path records of recs that the loop also pushes to potCards
RECURSIVE onPotRecords(_)
onPotRecords(recs) ==
  IF recs = <<>> THEN <<>>
  ELSE (IF Head(recs).isOnPot THEN <<Head(recs)>> ELSE <<>>) \o onPotRecords(Tail(recs))

\* The numbers the path loop adds to nextNumbersSet for recs, in order
RECURSIVE missingOfRecords(_)
missingOfRecords(recs) ==
  IF recs = <<>> THEN <<>>
  ELSE Head(recs).missingNumbers \o missingOfRecords(Tail(recs))

\* One iteration of the inner loop of analyzeGame: what it appends to
\* cardAnalyses, potCards and winningCards and adds to nextNumbersSet.
analyzePair(card, pattern) ==
  IF checkPattern(card, pattern)
  THEN LET analysis == analyzeCardForPattern(card, pattern)
       IN [analyses |-> <<analysis>>, pot |-> <<>>,
           winning |-> <<analysis>>, watch |-> <<>>]
  ELSE LET recs == pathRecordsFrom(card, pattern, getWinningPaths(card, pattern), 1)
       IN [analyses |-> recs, pot |-> onPotRecords(recs),
           winning |-> <<>>, watch |-> missingOfRecords(recs)]

\* The (card, pattern) iterations in loop order: cards outer, patterns inner
pairResults(cards, patterns) ==
  Flatten([ci \in 1..Len(cards) |->
    [pi \in 1..Len(patterns) |-> analyzePair(cards[ci], patterns[pi])]])

analyzeGame(cards, patterns) ==
  LET results == pairResults(cards, patterns)
      n == Len(results)
  IN [cardAnalyses |-> Flatten([k \in 1..n |-> results[k].analyses]),
      potCards |-> Flatten([k \in 1..n |-> results[k].pot]),
      winningCards |-> Flatten([k \in 1..n |-> results[k].winning]),
      nextNumbersToWatch |->
        SortAsc(SetFrom(Flatten([k \in 1..n |-> results[k].watch])))]

\* analyses.filter(analysis => !analysis.isWinner)
RECURSIVE notWinners(_)
notWinners(analyses) ==
  IF analyses = <<>> THEN <<>>
  ELSE (IF ~Head(analyses).isWinner THEN <<Head(analyses)>> ELSE <<>>)
       \o notWinners(Tail(analyses))

\* sort((a, b) => a.missingNumbers.length - b.missingNumbers.length), a
\* stable sort: records with equal counts keep their order
sortByMissing(analyses) ==
  LET before(j, i) ==
        \/ Len(analyses[j].missingNumbers) < Len(analyses[i].missingNumbers)
        \/ /\ Len(analyses[j].missingNumbers) = Len(analyses[i].missingNumbers)
           /\ j < i
  IN <<>> \o [k \in 1..Len(analyses) |->
       analyses[CHOOSE i \in 1..Len(analyses) :
                  Cardinality({j \in 1..Len(analyses) : before(j, i)}) = k - 1]]

\* slice(0, limit) for limit >= 0
sliceTo(xs, limit) == SubSeq(xs, 1, IF limit < Len(xs) THEN limit ELSE Len(xs))

\* A bug the claims must catch: the records are not sorted before the cut
getClosestPatternsUnsorted(card, patterns, limit) ==
  sliceTo(notWinners(<<>> \o [i \in 1..Len(patterns) |->
                        analyzeCardForPattern(card, patterns[i])]), limit)

getClosestPatterns(card, patterns, limit) ==
  sliceTo(sortByMissing(notWinners(<<>> \o [i \in 1..Len(patterns) |->
                          analyzeCardForPattern(card, patterns[i])])), limit)

\* ----------------------------------------------------------- game session

\* A number with a fractional part, as a caller could pass one (7.5)
NotInteger == -4

\* Number.isInteger
IsInteger(num) == num # NotInteger

isValidBingoNumber(num) ==
  IsInteger(num) /\ num >= MinBingoNumber /\ num <= MaxBingoNumber

createGameSession(cardIds, patternIds) ==
  [activeCardIds |-> cardIds, activePatternIds |-> patternIds,
   calledNumbers |-> <<>>, isActive |-> TRUE]

\* A bug the claims must catch: a number already called is taken again
addCalledNumberErrorNoRepeatCheck(s, number) ==
  IF ~isValidBingoNumber(number) THEN "Invalid Bingo number" ELSE ""

\* The message of the Error addCalledNumber throws, "" when it returns
addCalledNumberError(s, number) ==
  IF ~isValidBingoNumber(number) THEN "Invalid Bingo number"
  ELSE IF Includes(s.calledNumbers, number) THEN "Number already called"
  ELSE ""

\* Defined when the number is valid and not yet called; otherwise it throws
addCalledNumber(s, number) ==
  [s EXCEPT !.calledNumbers = Append(s.calledNumbers, number)]

removeCalledNumber(s, number) ==
  [s EXCEPT !.calledNumbers = FilterOut(s.calledNumbers, number)]

\* A bug the claims must catch: marks the stored card carries are kept
applyCalledNumbersKeepMarks(cards, calledNumbers) ==
  [i \in 1..Len(cards) |->
    [cards[i] EXCEPT !.cells =
      [r \in Idx |-> [c \in Idx |->
        [cards[i].cells[r][c] EXCEPT !.marked =
           \/ cards[i].cells[r][c].marked
           \/ cards[i].cells[r][c].value = FREE
           \/ /\ cards[i].cells[r][c].value # UNSET
              /\ Includes(calledNumbers, cards[i].cells[r][c].value)]]]]]

applyCalledNumbersToCards(cards, calledNumbers) ==
  [i \in 1..Len(cards) |->
    [cards[i] EXCEPT !.cells =
      [r \in Idx |-> [c \in Idx |->
        [cards[i].cells[r][c] EXCEPT !.marked =
           \/ cards[i].cells[r][c].value = FREE
           \/ /\ cards[i].cells[r][c].value # UNSET
              /\ Includes(calledNumbers, cards[i].cells[r][c].value)]]]]]

\* ------------------------------------------------------ card generator

\* The '' of an empty cell in the manual creator
EMPTY == -2

\* What a relational operator (<, >) makes of a cell value: '' becomes 0
ToNumber(value) == IF value = EMPTY THEN 0 ELSE value

\* COLUMN_RANGES
ColumnMin(col) == 15 * col + 1
ColumnMax(col) == 15 * col + 15

\* Math.random as one of a few streams: Strides[seed] steps through the 15
\* offsets of a range, every offset drawn twice in a row.
Strides == <<1, 2, 4, 7, 8, 11, 13, 14>>
Seeds == 1..(IF SeedCount < Len(Strides) THEN SeedCount ELSE Len(Strides))

\* Math.floor(Math.random() * (range.max - range.min + 1)), k-th draw
randomOffset(seed, k) == (Strides[seed] * (k \div 2) + seed) % 15

\* A bug the claims must catch: the draws are kept in a list, repeats too
RECURSIVE generateColumnNumbersNoSet(_, _, _, _, _)
generateColumnNumbersNoSet(col, count, seed, k, numbers) ==
  IF Len(numbers) >= count THEN [numbers |-> numbers, k |-> k]
  ELSE generateColumnNumbersNoSet(col, count, seed, k + 1,
         Append(numbers, randomOffset(seed, k) + ColumnMin(col)))

\* The while loop of generateColumnNumbers from draw k on; k is the next
\* unused draw when it returns.
RECURSIVE generateColumnNumbersFrom(_, _, _, _, _)
generateColumnNumbersFrom(col, count, seed, k, numbers) ==
  IF Len(numbers) >= count THEN [numbers |-> numbers, k |-> k]
  ELSE generateColumnNumbersFrom(col, count, seed, k + 1,
         SetAdd(numbers, randomOffset(seed, k) + ColumnMin(col)))

generateColumnNumbers(col, count, seed, k) ==
  generateColumnNumbersFrom(col, count, seed, k, <<>>)

GeneratedIds ==
  <<"card_1", "card_2", "card_3", "card_4", "card_5", "card_6", "card_7", "card_8">>

generateBingoCard(seed) ==
  LET colB == generateColumnNumbers(0, 5, seed, 0)
      colI == generateColumnNumbers(1, 5, seed, colB.k)
      colN == generateColumnNumbers(2, 5, seed, colI.k)
      colG == generateColumnNumbers(3, 5, seed, colN.k)
      colO == generateColumnNumbers(4, 5, seed, colG.k)
      numbers == <<colB.numbers, colI.numbers, colN.numbers, colG.numbers, colO.numbers>>
      \* numIndex of the row: the FREE row of column N is skipped
      numIndex(row, col) == IF col = 2 /\ row > 2 THEN row ELSE row + 1
  IN [id |-> GeneratedIds[seed],
      cells |-> [row \in Idx |-> [col \in Idx |->
        IF row = 2 /\ col = 2
        THEN [column |-> "N", value |-> FREE, marked |-> TRUE]
        ELSE [column |-> COLUMNS[col + 1],
              value |-> numbers[col + 1][numIndex(row, col)],
              marked |-> FALSE]]]]

\* Row-major position k = 0..24
RowOf(k) == k \div 5
ColOf(k) == k % 5

\* validateBingoCard: false at the first value the set already has
validateBingoCard(card) ==
  ~\E k \in 0..24 : \E j \in 0..(k - 1) :
      /\ card.cells[RowOf(k)][ColOf(k)].value # FREE
      /\ card.cells[RowOf(j)][ColOf(j)].value # FREE
      /\ card.cells[RowOf(k)][ColOf(k)].value = card.cells[RowOf(j)][ColOf(j)].value

\* A bug the claims must catch: the cell is toggled instead of marked
markNumberToggle(card, number) ==
  [card EXCEPT !.cells =
    [row \in Idx |-> [col \in Idx |->
      IF card.cells[row][col].value = number
      THEN [card.cells[row][col] EXCEPT !.marked = ~card.cells[row][col].marked]
      ELSE card.cells[row][col]]]]

markNumber(card, number) ==
  [card EXCEPT !.cells =
    [row \in Idx |-> [col \in Idx |->
      IF card.cells[row][col].value = number
      THEN [card.cells[row][col] EXCEPT !.marked = TRUE]
      ELSE card.cells[row][col]]]]

resetCard(card) ==
  [card EXCEPT !.cells =
    [row \in Idx |-> [col \in Idx |->
      IF card.cells[row][col].value # FREE
      THEN [card.cells[row][col] EXCEPT !.marked = FALSE]
      ELSE card.cells[row][col]]]]

\* ------------------------------------------------------- card validation

Valid == [isValid |-> TRUE, error |-> ""]
Invalid(error) == [isValid |-> FALSE, error |-> error]

validateNumberForColumn(number, columnIndex) ==
  IF columnIndex \notin Idx THEN Invalid("Invalid column")
  ELSE IF ToNumber(number) < ColumnMin(columnIndex)
          \/ ToNumber(number) > ColumnMax(columnIndex)
  THEN Invalid("column must be min-max")
  ELSE Valid

\* The numbers validateCompleteCard has added to its set before position k
NumbersBefore(card, k) ==
  {card.cells[RowOf(j)][ColOf(j)].value : j \in
     {i \in 0..(k - 1) : card.cells[RowOf(i)][ColOf(i)].value # FREE}}

\* The scan of validateCompleteCard from row-major position k on
RECURSIVE validateCompleteCardFrom(_, _)
validateCompleteCardFrom(card, k) ==
  IF k > 24 THEN Valid
  ELSE LET value == card.cells[RowOf(k)][ColOf(k)].value
       IN IF value = FREE THEN validateCompleteCardFrom(card, k + 1)
          ELSE IF value = UNSET THEN Invalid("All cells must be filled")
          ELSE IF ~validateNumberForColumn(value, ColOf(k)).isValid
          THEN validateNumberForColumn(value, ColOf(k))
          ELSE IF value \in NumbersBefore(card, k) THEN Invalid("Duplicate number")
          ELSE validateCompleteCardFrom(card, k + 1)

validateCompleteCard(card) == validateCompleteCardFrom(card, 0)

\* A bug the claims must catch: the cell being edited is not skipped
validateNumberEntryNoSkip(card, number, row, col) ==
  IF ~validateNumberForColumn(number, col).isValid
  THEN validateNumberForColumn(number, col)
  ELSE IF \E r \in Idx : \E c \in Idx :
            /\ card.cells[r][c].value # FREE
            /\ card.cells[r][c].value = number
  THEN Invalid("Number already used")
  ELSE Valid

validateNumberEntry(card, number, row, col) ==
  IF ~validateNumberForColumn(number, col).isValid
  THEN validateNumberForColumn(number, col)
  ELSE IF \E r \in Idx : \E c \in Idx :
            /\ ~(r = row /\ c = col)
            /\ card.cells[r][c].value # FREE
            /\ card.cells[r][c].value = number
  THEN Invalid("Number already used")
  ELSE Valid

\* ------------------------------------------------------------------ state

VARIABLES
  cardStore,        \* AsyncStorage CARDS
  patternStore,     \* AsyncStorage PATTERNS
  gameStateStore,   \* AsyncStorage GAME_STATE
  setupStep,        \* GameScreen: "card-selection" | "pattern-selection" | "playing"
  session,          \* GameScreen: the GameSession or NoSession
  allCards,         \* GameScreen: cards loaded by loadData
  allPatterns,      \* GameScreen: patterns loaded by loadData
  alerts,           \* BINGO alerts raised by the latest handler: <<cardId, patternId>>
  manualCard,       \* ManualCardCreator: its state `card`, NoCard while closed
  alertShown,       \* the Alert the latest handler showed, "" if none
  currentCard,      \* the card the game-flow helpers mark and reset, or NoCard
  lastCall,         \* the latest call into the pattern storage and its outcome
  exampleGame       \* ExampleGameComponent: its state and the saveCard calls in flight

gameVars == <<cardStore, patternStore, gameStateStore, setupStep, session,
              allCards, allPatterns, alerts>>
libraryVars == <<manualCard, alertShown, currentCard, lastCall, exampleGame>>
vars == <<gameVars, libraryVars>>

NoCard == [id |-> "none"]

\* No call yet; error is "" when a call returned and the message when it threw
NoCall == [op |-> "none", id |-> "", error |-> ""]

\* ExampleGameComponent is not mounted
NoGame == [mounted |-> FALSE]

NoSession == [isActive |-> FALSE]
NoState == [present |-> FALSE]

\* saveSession: the game state written to storage
gameStateOf(s) ==
  [calledNumbers |-> s.calledNumbers, activeCardIds |-> s.activeCardIds,
   activePatternIds |-> s.activePatternIds]

\* loadSession: the session read back from a stored game state
loadSession(gs) ==
  IF gs = NoState THEN NoSession
  ELSE [activeCardIds |-> gs.activeCardIds, activePatternIds |-> gs.activePatternIds,
        calledNumbers |-> gs.calledNumbers, isActive |-> TRUE]

RECURSIVE FilterById(_, _)
FilterById(items, ids) ==
  IF items = <<>> THEN <<>>
  ELSE (IF Includes(ids, Head(items).id) THEN <<Head(items)>> ELSE <<>>)
       \o FilterById(Tail(items), ids)

selectedCards == FilterById(allCards, session.activeCardIds)
selectedPatterns == FilterById(allPatterns, session.activePatternIds)

\* The cards GameScreen hands to the matcher on every render
markedCards == applyCalledNumbersToCards(selectedCards, session.calledNumbers)

gameAnalysis == analyzeGame(markedCards, selectedPatterns)

Playing == setupStep = "playing" /\ session # NoSession /\ Len(selectedCards) > 0

\* ----------------------------------------------------------- input sets

AllPatternIds == [i \in 1..Len(getAllPatterns(StoredPatterns)) |->
                    getAllPatterns(StoredPatterns)[i].id]

CardSelections == {<<>>, <<"cardA">>, <<"cardA", "cardB">>}
PatternSelections == {AllPatternIds}

\* Called numbers of sessions saved by an earlier run of the app
MidGame == <<61, 49, 65, 46, 31, 3, 4, 50, 20>>
LateGame ==
  <<2, 3, 4, 5, 17, 18, 19, 20, 31, 32, 34, 35,
    46, 47, 48, 49, 50, 61, 62, 63, 64, 65>>

SavedGameStates ==
  { NoState,
    [calledNumbers |-> MidGame, activeCardIds |-> <<"cardA", "cardB">>,
     activePatternIds |-> AllPatternIds],
    [calledNumbers |-> LateGame, activeCardIds |-> <<"cardA", "cardB">>,
     activePatternIds |-> AllPatternIds],
    [calledNumbers |-> <<7>>, activeCardIds |-> <<"deleted">>,
     activePatternIds |-> AllPatternIds] }

\* ---------------------------------------------------------------- actions

Init ==
  /\ cardStore = StoredCards
  /\ patternStore = StoredPatterns
  /\ gameStateStore \in SavedGameStates
  /\ setupStep = "card-selection"
  /\ session = NoSession
  /\ allCards = <<>>
  /\ allPatterns = <<>>
  /\ alerts = {}
  /\ manualCard = NoCard
  /\ alertShown = ""
  /\ currentCard = NoCard
  /\ lastCall = NoCall
  /\ exampleGame = NoGame

\* useFocusEffect -> loadData
loadData ==
  LET loadedCards == cardStore
      loadedPatterns == getAllPatterns(patternStore)
      savedSession == loadSession(gameStateStore)
      activeCardsExist ==
        \E i \in 1..Len(savedSession.activeCardIds) :
          \E j \in 1..Len(loadedCards) :
            loadedCards[j].id = savedSession.activeCardIds[i]
  IN /\ allCards' = loadedCards
     /\ allPatterns' = loadedPatterns
     /\ IF savedSession # NoSession /\ Len(savedSession.activeCardIds) > 0
        THEN IF activeCardsExist
             THEN /\ session' = savedSession
                  /\ setupStep' = "playing"
                  /\ UNCHANGED gameStateStore
             ELSE /\ gameStateStore' = NoState
                  /\ session' = NoSession
                  /\ setupStep' = "card-selection"
        ELSE UNCHANGED <<session, setupStep, gameStateStore>>
     /\ UNCHANGED <<cardStore, patternStore, alerts>>
     /\ UNCHANGED libraryVars

handleCardSelectionComplete(selectedCardIds) ==
  /\ setupStep = "card-selection"
  /\ Len(allCards) > 0
  /\ IF Len(selectedCardIds) = 0
     THEN UNCHANGED <<session, setupStep>>
     ELSE /\ session' = createGameSession(selectedCardIds, <<>>)
          /\ setupStep' = "pattern-selection"
  /\ UNCHANGED <<cardStore, patternStore, gameStateStore, allCards, allPatterns, alerts>>
  /\ UNCHANGED libraryVars

handlePatternSelectionComplete(selectedPatternIds) ==
  /\ setupStep = "pattern-selection"
  /\ Len(allPatterns) > 0
  /\ session # NoSession
  /\ session' = [session EXCEPT !.activePatternIds = selectedPatternIds]
  /\ gameStateStore' = gameStateOf(session')
  /\ setupStep' = "playing"
  /\ UNCHANGED <<cardStore, patternStore, allCards, allPatterns, alerts>>
  /\ UNCHANGED libraryVars

\* The (card, pattern) pairs the win check of handleNumberCall alerts for
winAlerts(s) ==
  LET cards == applyCalledNumbersToCards(FilterById(allCards, s.activeCardIds),
                                         s.calledNumbers)
      patterns == FilterById(allPatterns, s.activePatternIds)
  IN {<<cards[i].id, patterns[j].id>> : <<i, j>> \in
        {ij \in (1..Len(cards)) \X (1..Len(patterns)) :
           checkPattern(cards[ij[1]], patterns[ij[2]])}}

\* ManualCaller offers only valid, uncalled numbers; addCalledNumber throws
\* on the others before any state is set.
handleNumberCall(number) ==
  /\ Playing
  /\ isValidBingoNumber(number)
  /\ ~Includes(session.calledNumbers, number)
  /\ session' = addCalledNumber(session, number)
  /\ gameStateStore' = gameStateOf(session')
  /\ alerts' = winAlerts(session')
  /\ UNCHANGED <<cardStore, patternStore, setupStep, allCards, allPatterns>>
  /\ UNCHANGED libraryVars

handleNumberRemove(number) ==
  /\ Playing
  /\ Includes(session.calledNumbers, number)
  /\ session' = removeCalledNumber(session, number)
  /\ gameStateStore' = gameStateOf(session')
  /\ alerts' = {}
  /\ UNCHANGED <<cardStore, patternStore, setupStep, allCards, allPatterns>>
  /\ UNCHANGED libraryVars

handleClearAll ==
  /\ Playing
  /\ session' = [session EXCEPT !.calledNumbers = <<>>]
  /\ gameStateStore' = gameStateOf(session')
  /\ alerts' = {}
  /\ UNCHANGED <<cardStore, patternStore, setupStep, allCards, allPatterns>>
  /\ UNCHANGED libraryVars

handleNewSession ==
  /\ setupStep = "playing"
  /\ session # NoSession
  /\ gameStateStore' = NoState
  /\ session' = NoSession
  /\ setupStep' = "card-selection"
  /\ alerts' = {}
  /\ UNCHANGED <<cardStore, patternStore, allCards, allPatterns>>
  /\ UNCHANGED libraryVars

Next ==
  \/ loadData
  \/ \E ids \in CardSelections : handleCardSelectionComplete(ids)
  \/ \E ids \in PatternSelections : handlePatternSelectionComplete(ids)
  \/ \E number \in CallPool : handleNumberCall(number)
  \/ \E number \in CallPool : handleNumberRemove(number)
  \/ handleClearAll
  \/ handleNewSession

Spec == Init /\ [][Next]_vars

\* ---------------------------------------------------------- card library
\* CardsScreen, ManualCardCreator and the game-flow helpers of
\* bingoGenerator, followed for the first card of a library.

\* parseInt of an input that is no number
NaN == -3

\* What the number pad submits, and the cells the model edits
EntryInputs == {NaN, 0, 1, 2, 3, 16, 17, 76}
EditCells == {<<0, 0>>, <<1, 0>>, <<0, 1>>}

createEmptyCard ==
  [id |-> "card_manual",
   cells |-> [row \in Idx |-> [col \in Idx |->
     IF row = 2 /\ col = 2
     THEN [column |-> "N", value |-> FREE, marked |-> FALSE]
     ELSE [column |-> COLUMNS[col + 1], value |-> EMPTY, marked |-> FALSE]]]]

\* The creator after 21 accepted entries: only EditCells are still empty
PartialCard ==
  [createEmptyCard EXCEPT !.cells =
    [row \in Idx |-> [col \in Idx |->
      IF <<row, col>> \in EditCells \/ (row = 2 /\ col = 2)
      THEN createEmptyCard.cells[row][col]
      ELSE [createEmptyCard.cells[row][col] EXCEPT !.value = ValuesA[row][col]]]]]

RECURSIVE WithoutId(_, _)
WithoutId(cards, id) ==
  IF cards = <<>> THEN <<>>
  ELSE (IF Head(cards).id # id THEN <<Head(cards)>> ELSE <<>>)
       \o WithoutId(Tail(cards), id)

\* saveCard: the stored list after the call
saveCard(existingCards, c) == Append(WithoutId(existingCards, c.id), c)

\* "+ Manual" of CardsScreen, no card being edited
openManualCreator ==
  /\ manualCard = NoCard
  /\ cardStore = <<>>
  /\ manualCard' = createEmptyCard
  /\ alertShown' = ""
  /\ UNCHANGED <<gameVars, currentCard, lastCall, exampleGame>>

\* handleCellPress(row, col) followed by handleNumberSubmit
handleNumberSubmit(row, col, number) ==
  /\ manualCard # NoCard
  /\ ~(row = 2 /\ col = 2)
  /\ IF number = NaN
     THEN /\ alertShown' = "Invalid Input"
          /\ UNCHANGED manualCard
     ELSE IF ~validateNumberEntry(manualCard, number, row, col).isValid
     THEN /\ alertShown' = "Invalid Number"
          /\ UNCHANGED manualCard
     ELSE /\ manualCard' = [manualCard EXCEPT !.cells[row][col].value = number]
          /\ alertShown' = ""
  /\ UNCHANGED <<gameVars, currentCard, lastCall, exampleGame>>

\* The card handleAutoFill sets: autoCard with the current values copied in
autoFilledCard(current, autoCard) ==
  [autoCard EXCEPT !.cells =
    [row \in Idx |-> [col \in Idx |->
      IF /\ current.cells[row][col].value # UNSET
         /\ current.cells[row][col].value # FREE
      THEN [autoCard.cells[row][col] EXCEPT !.value = current.cells[row][col].value]
      ELSE autoCard.cells[row][col]]]]

handleAutoFill(seed) ==
  /\ manualCard # NoCard
  /\ manualCard' = autoFilledCard(manualCard, generateBingoCard(seed))
  /\ alertShown' = "Auto-Fill"
  /\ UNCHANGED <<gameVars, currentCard, lastCall, exampleGame>>

handleReset ==
  /\ manualCard # NoCard
  /\ manualCard' = createEmptyCard
  /\ alertShown' = "Reset Card"
  /\ UNCHANGED <<gameVars, currentCard, lastCall, exampleGame>>

\* handleSave, and handleManualCardCreated closing the creator on success
handleSave ==
  /\ manualCard # NoCard
  /\ IF ~validateCompleteCard(manualCard).isValid
     THEN /\ alertShown' = "Incomplete Card"
          /\ UNCHANGED <<manualCard, cardStore>>
     ELSE /\ cardStore' = saveCard(cardStore, manualCard)
          /\ alertShown' = "Card saved successfully!"
          /\ manualCard' = NoCard
  /\ UNCHANGED <<patternStore, gameStateStore, setupStep, session,
                 allCards, allPatterns, alerts, currentCard, lastCall, exampleGame>>

\* handleGenerateCard of CardsScreen
handleGenerateCard(seed) ==
  /\ manualCard = NoCard
  /\ cardStore = <<>>
  /\ IF ~validateBingoCard(generateBingoCard(seed))
     THEN /\ alertShown' = "Error"
          /\ UNCHANGED cardStore
     ELSE /\ cardStore' = saveCard(cardStore, generateBingoCard(seed))
          /\ alertShown' = "New card generated!"
  /\ UNCHANGED <<patternStore, gameStateStore, setupStep, session,
                 allCards, allPatterns, alerts, manualCard, currentCard, lastCall, exampleGame>>

\* The smallest number of the card that is not marked yet
UnmarkedNumbers(c) ==
  {c.cells[pos[1]][pos[2]].value : pos \in
     {q \in Idx \X Idx : /\ ~c.cells[q[1]][q[2]].marked
                         /\ c.cells[q[1]][q[2]].value # FREE}}

\* The numbers the game flow marks next: the smallest unmarked number of the
\* card or a number the caller types
MarkInputs(c) ==
  IF c = NoCard THEN {}
  ELSE CallPool \cup {n \in UnmarkedNumbers(c) : \A m \in UnmarkedNumbers(c) : n <= m}

\* exampleCompleteGameFlow: a stored card becomes currentCard
takeCard(i) ==
  /\ manualCard = NoCard
  /\ currentCard = NoCard
  /\ i \in 1..Len(cardStore)
  /\ currentCard' = cardStore[i]
  /\ UNCHANGED <<gameVars, manualCard, alertShown, lastCall, exampleGame>>

\* exampleCompleteGameFlow: markNumber, then saveCard after each mark
markStep(num) ==
  /\ currentCard # NoCard
  /\ currentCard' = markNumber(currentCard, num)
  /\ cardStore' = saveCard(cardStore, currentCard')
  /\ UNCHANGED <<patternStore, gameStateStore, setupStep, session,
                 allCards, allPatterns, alerts, manualCard, alertShown, lastCall, exampleGame>>

\* exampleResetCard
resetStep ==
  /\ currentCard # NoCard
  /\ currentCard' = resetCard(currentCard)
  /\ UNCHANGED <<gameVars, manualCard, alertShown, lastCall, exampleGame>>

\* JSON.stringify of a cell value: a JSON number or a JSON string
stringifyValue(value) ==
  IF value = FREE THEN [type |-> "string", text |-> "FREE"]
  ELSE IF value = EMPTY THEN [type |-> "string", text |-> ""]
  ELSE [type |-> "number", number |-> value]

\* JSON.parse of what stringifyValue wrote
parseValue(json) ==
  IF json.type = "number" THEN json.number
  ELSE IF json.text = "FREE" THEN FREE
  ELSE EMPTY

\* The cards array of the export file: exportData writes getAllCards
exportedCards(cards) ==
  [k \in 1..Len(cards) |->
    [id |-> cards[k].id,
     cells |-> [row \in Idx |-> [col \in Idx |->
       [column |-> cards[k].cells[row][col].column,
        value |-> stringifyValue(cards[k].cells[row][col].value),
        marked |-> cards[k].cells[row][col].marked]]]]]

\* validateCard of exportImportService on a parsed card of the file: every
\* cell value must be a number (null is never written)
validateCard(fileCard) ==
  \A row \in Idx : \A col \in Idx : fileCard.cells[row][col].value.type = "number"

parsedCard(fileCard) ==
  [id |-> fileCard.id,
   cells |-> [row \in Idx |-> [col \in Idx |->
     [column |-> fileCard.cells[row][col].column,
      value |-> parseValue(fileCard.cells[row][col].value),
      marked |-> fileCard.cells[row][col].marked]]]]

\* for (const card of importData.cards) await saveCard(card)
RECURSIVE saveEachCard(_, _)
saveEachCard(existingCards, fileCards) ==
  IF fileCards = <<>> THEN existingCards
  ELSE saveEachCard(saveCard(existingCards, parsedCard(Head(fileCards))),
                    Tail(fileCards))

\* exportData, then performImport of the settings screen on that file
importExportedData ==
  /\ manualCard = NoCard
  /\ cardStore # <<>>
  /\ IF \E k \in 1..Len(cardStore) : ~validateCard(exportedCards(cardStore)[k])
     THEN /\ alertShown' = "Import Failed"
          /\ UNCHANGED cardStore
     ELSE /\ cardStore' = saveEachCard(cardStore, exportedCards(cardStore))
          /\ alertShown' = "Successfully imported"
  /\ UNCHANGED <<patternStore, gameStateStore, setupStep, session,
                 allCards, allPatterns, alerts, manualCard, currentCard, lastCall, exampleGame>>

InitCards ==
  /\ cardStore = <<>>
  /\ patternStore = StoredPatterns
  /\ gameStateStore = NoState
  /\ setupStep = "card-selection"
  /\ session = NoSession
  /\ allCards = <<>>
  /\ allPatterns = <<>>
  /\ alerts = {}
  /\ manualCard \in {NoCard, PartialCard}
  /\ alertShown = ""
  /\ currentCard = NoCard
  /\ lastCall = NoCall
  /\ exampleGame = NoGame

NextCards ==
  \/ openManualCreator
  \/ \E pos \in EditCells : \E number \in EntryInputs :
       handleNumberSubmit(pos[1], pos[2], number)
  \/ \E seed \in Seeds : handleAutoFill(seed)
  \/ handleReset
  \/ handleSave
  \/ \E seed \in Seeds : handleGenerateCard(seed)
  \/ \E i \in 1..Len(cardStore) : takeCard(i)
  \/ \E num \in MarkInputs(currentCard) : markStep(num)
  \/ resetStep
  \/ importExportedData

SpecCards == InitCards /\ [][NextCards]_vars

\* ------------------------------------------------------- pattern library
\* storageService's pattern operations, the pattern import of
\* exportImportService and initializeApp, on the stored pattern list.

BuiltInIds == {builtInPatterns[i].id : i \in 1..Len(builtInPatterns)}

\* id.startsWith('builtin_') on the ids the model uses
startsWithBuiltin(id) == id \in BuiltInIds \cup {"builtin_custom"}

\* getPredefinedPatterns; createPattern numbers the ids it generates
getPredefinedPatterns ==
  << createPattern("pattern_1", "Dikit", createDikitPattern),
     createPattern("pattern_2", "Patong", createPatongPattern),
     createPattern("pattern_3", "Horizontal Line", createHorizontalLinePattern),
     createPattern("pattern_4", "Vertical Line", createVerticalLinePattern),
     createPattern("pattern_5", "Diagonal Line", createDiagonalLinePattern),
     createPattern("pattern_6", "Four Corners", createFourCornersPattern),
     createPattern("pattern_7", "Horizontal Line (Top)", GridOf({<<0, c>> : c \in Idx})),
     createPattern("pattern_8", "Vertical Line (Left)", GridOf({<<r, 0>> : r \in Idx})),
     createPattern("pattern_9", "Diagonal (\\)", GridOf({<<i, i>> : i \in Idx})),
     createPattern("pattern_10", "X-Shape", createXPattern),
     createPattern("pattern_11", "Plus Sign", createPlusPattern),
     createPattern("pattern_12", "Postage Stamp (Top-Left)", createPostageStampPattern),
     createPattern("pattern_13", "Full House", createFullHousePattern) >>

\* The patterns callers hand to savePattern: new ones, a second version of
\* p_x, one that takes a built-in name, one that takes a built-in id and one
\* whose id only looks built-in
SavePool ==
  << createPattern("p_x", "X-Shape", createXPattern),
     createPattern("p_x", "X-Shape", createPlusPattern),
     createPattern("p_corners", "Four Corners", createFourCornersPattern),
     createPattern("p_house", "Full House", createFourCornersPattern),
     createPattern("builtin_dikit", "Dikit", createFullHousePattern),
     createPattern("builtin_full_house", "My House", createEmptyPattern),
     createPattern("builtin_custom", "Custom", createPostageStampPattern) >>

DeleteIds == {"p_x", "p_corners", "p_absent", "builtin_dikit", "builtin_full_house",
              "builtin_custom"}

\* The pattern lists of the backup files the import is given
ImportFiles ==
  << <<SavePool[1], SavePool[5]>>,
     <<SavePool[4], SavePool[7], SavePool[3]>>,
     getAllPatterns(<<SavePool[2]>>) >>

RECURSIVE withoutPatternId(_, _)
withoutPatternId(patterns, id) ==
  IF patterns = <<>> THEN <<>>
  ELSE (IF Head(patterns).id # id THEN <<Head(patterns)>> ELSE <<>>)
       \o withoutPatternId(Tail(patterns), id)

RECURSIVE withoutBuiltInIds(_)
withoutBuiltInIds(patterns) ==
  IF patterns = <<>> THEN <<>>
  ELSE (IF Head(patterns).id \notin BuiltInIds THEN <<Head(patterns)>> ELSE <<>>)
       \o withoutBuiltInIds(Tail(patterns))

\* A bug the claims must catch: the guard on the built-in ids is missing
savePatternUnguarded(saved, pattern) ==
  [stored |-> Append(withoutPatternId(saved, pattern.id), pattern), error |-> ""]

\* savePattern: what storage holds after the call, and the error it throws
savePattern(saved, pattern) ==
  IF pattern.id \in BuiltInIds
  THEN [stored |-> saved, error |-> "Failed to save pattern"]
  ELSE [stored |-> Append(withoutPatternId(userPatternsOf(saved), pattern.id), pattern),
        error |-> ""]

\* deletePattern: what storage holds after the call, and the error it throws
deletePattern(saved, id) ==
  IF id \in BuiltInIds
  THEN [stored |-> saved, error |-> "Failed to delete pattern"]
  ELSE [stored |-> withoutBuiltInIds(
                     withoutBuiltInIds(withoutPatternId(getAllPatterns(saved), id))),
        error |-> ""]

\* for (const pattern of patterns) await savePattern(pattern), errors caught
\* or not, the stored list is what the last successful call left
RECURSIVE saveEach(_, _, _)
saveEach(saved, patterns, skipBuiltin) ==
  IF patterns = <<>> THEN saved
  ELSE saveEach(IF skipBuiltin /\ startsWithBuiltin(Head(patterns).id)
                THEN saved
                ELSE savePattern(saved, Head(patterns)).stored,
                Tail(patterns), skipBuiltin)

callSavePattern(pattern) ==
  /\ patternStore' = savePattern(patternStore, pattern).stored
  /\ lastCall' = [op |-> "savePattern", id |-> pattern.id,
                  error |-> savePattern(patternStore, pattern).error]
  /\ UNCHANGED <<cardStore, gameStateStore, setupStep, session, allCards,
                 allPatterns, alerts, manualCard, alertShown, currentCard, exampleGame>>

callDeletePattern(id) ==
  /\ patternStore' = deletePattern(patternStore, id).stored
  /\ lastCall' = [op |-> "deletePattern", id |-> id,
                  error |-> deletePattern(patternStore, id).error]
  /\ UNCHANGED <<cardStore, gameStateStore, setupStep, session, allCards,
                 allPatterns, alerts, manualCard, alertShown, currentCard, exampleGame>>

\* importData of exportImportService, its pattern loop
importPatterns(patterns) ==
  /\ patternStore' = saveEach(patternStore, patterns, TRUE)
  /\ lastCall' = [op |-> "importData", id |-> "", error |-> ""]
  /\ UNCHANGED <<cardStore, gameStateStore, setupStep, session, allCards,
                 allPatterns, alerts, manualCard, alertShown, currentCard, exampleGame>>

\* exportAllData followed by importData of storageService: the exported
\* list replaces the stored one
restoreBackup ==
  /\ patternStore' = getAllPatterns(patternStore)
  /\ lastCall' = [op |-> "restoreBackup", id |-> "", error |-> ""]
  /\ UNCHANGED <<cardStore, gameStateStore, setupStep, session, allCards,
                 allPatterns, alerts, manualCard, alertShown, currentCard, exampleGame>>

initializeApp ==
  /\ IF Len(getAllPatterns(patternStore)) > 0
     THEN UNCHANGED patternStore
     ELSE patternStore' = saveEach(patternStore, getPredefinedPatterns, FALSE)
  /\ lastCall' = [op |-> "initializeApp", id |-> "", error |-> ""]
  /\ UNCHANGED <<cardStore, gameStateStore, setupStep, session, allCards,
                 allPatterns, alerts, manualCard, alertShown, currentCard, exampleGame>>

\* A first launch (nothing stored) or a later one
InitPatterns ==
  /\ cardStore = <<>>
  /\ patternStore \in {<<>>, StoredPatterns}
  /\ gameStateStore = NoState
  /\ setupStep = "card-selection"
  /\ session = NoSession
  /\ allCards = <<>>
  /\ allPatterns = <<>>
  /\ alerts = {}
  /\ manualCard = NoCard
  /\ alertShown = ""
  /\ currentCard = NoCard
  /\ lastCall = NoCall
  /\ exampleGame = NoGame

NextPatterns ==
  \/ \E i \in 1..Len(SavePool) : callSavePattern(SavePool[i])
  \/ \E id \in DeleteIds : callDeletePattern(id)
  \/ \E i \in 1..Len(ImportFiles) : importPatterns(ImportFiles[i])
  \/ restoreBackup
  \/ initializeApp

SpecPatterns == InitPatterns /\ [][NextPatterns]_vars

\* ---------------------------------------------------------- call history
\* addCalledNumber and removeCalledNumber of gameSession called directly, with
\* every kind of number, on a session from createGameSession.

\* The numbers passed in: callable ones, 0, 76 and one that is no integer
NumberInputs == CallPool \cup {0, MaxBingoNumber + 1, NotInteger}

callAddCalledNumber(number) ==
  /\ IF addCalledNumberError(session, number) # ""
     THEN UNCHANGED session
     ELSE session' = addCalledNumber(session, number)
  /\ lastCall' = [op |-> "addCalledNumber", id |-> "", number |-> number,
                  error |-> addCalledNumberError(session, number)]
  /\ UNCHANGED <<cardStore, patternStore, gameStateStore, setupStep, allCards,
                 allPatterns, alerts, manualCard, alertShown, currentCard, exampleGame>>

callRemoveCalledNumber(number) ==
  /\ session' = removeCalledNumber(session, number)
  /\ lastCall' = [op |-> "removeCalledNumber", id |-> "", number |-> number,
                  error |-> ""]
  /\ UNCHANGED <<cardStore, patternStore, gameStateStore, setupStep, allCards,
                 allPatterns, alerts, manualCard, alertShown, currentCard, exampleGame>>

InitSession ==
  /\ cardStore = <<>>
  /\ patternStore = <<>>
  /\ gameStateStore = NoState
  /\ setupStep = "playing"
  /\ session = createGameSession(<<"cardA">>, <<"builtin_dikit">>)
  /\ allCards = <<>>
  /\ allPatterns = <<>>
  /\ alerts = {}
  /\ manualCard = NoCard
  /\ alertShown = ""
  /\ currentCard = NoCard
  /\ lastCall = NoCall
  /\ exampleGame = NoGame

NextSession ==
  \/ \E number \in NumberInputs : callAddCalledNumber(number)
  \/ \E number \in NumberInputs : callRemoveCalledNumber(number)

SpecSession == InitSession /\ [][NextSession]_vars

\* ------------------------------------------------------ concurrent saves
\* ExampleGameComponent: callNumber marks the number on every card and
\* starts one saveCard per card without awaiting it. A saveCard call reads
\* the stored list (await getAllCards) and later writes the list it built
\* from what it read; the calls in flight interleave at their awaits.

mountExampleGame ==
  /\ exampleGame = NoGame
  /\ exampleGame' = [mounted |-> TRUE, cards |-> cardStore,
                     calledNumbers |-> <<>>, saves |-> <<>>]
  /\ UNCHANGED <<gameVars, manualCard, alertShown, currentCard, lastCall>>

SavesInFlight ==
  {k \in 1..Len(exampleGame.saves) : exampleGame.saves[k].pc # "done"}

\* callNumber with the number Math.random picks; the model waits for the
\* saves of the previous call before the next number
callNumber(random) ==
  /\ exampleGame # NoGame
  /\ SavesInFlight = {}
  /\ ~Includes(exampleGame.calledNumbers, random)
  /\ LET updatedCards == [k \in 1..Len(exampleGame.cards) |->
                            markNumber(exampleGame.cards[k], random)]
     IN exampleGame' =
          [exampleGame EXCEPT
             !.calledNumbers = Append(exampleGame.calledNumbers, random),
             !.cards = updatedCards,
             !.saves = [k \in 1..Len(updatedCards) |->
                          [card |-> updatedCards[k], pc |-> "getAllCards",
                           existingCards |-> <<>>]]]
  /\ UNCHANGED <<gameVars, manualCard, alertShown, currentCard, lastCall>>

\* saveCard call k: const existingCards = await getAllCards()
saveCardRead(k) ==
  /\ exampleGame # NoGame
  /\ k \in 1..Len(exampleGame.saves)
  /\ exampleGame.saves[k].pc = "getAllCards"
  /\ exampleGame' = [exampleGame EXCEPT !.saves[k].existingCards = cardStore,
                                        !.saves[k].pc = "setItem"]
  /\ UNCHANGED <<gameVars, manualCard, alertShown, currentCard, lastCall>>

\* saveCard call k: await AsyncStorage.setItem(CARDS, updatedCards)
saveCardWrite(k) ==
  /\ exampleGame # NoGame
  /\ k \in 1..Len(exampleGame.saves)
  /\ exampleGame.saves[k].pc = "setItem"
  /\ cardStore' = saveCard(exampleGame.saves[k].existingCards,
                           exampleGame.saves[k].card)
  /\ exampleGame' = [exampleGame EXCEPT !.saves[k].pc = "done"]
  /\ UNCHANGED <<patternStore, gameStateStore, setupStep, session, allCards,
                 allPatterns, alerts, manualCard, alertShown, currentCard, lastCall>>

InitSaves ==
  /\ cardStore = StoredCards
  /\ patternStore = <<>>
  /\ gameStateStore = NoState
  /\ setupStep = "card-selection"
  /\ session = NoSession
  /\ allCards = <<>>
  /\ allPatterns = <<>>
  /\ alerts = {}
  /\ manualCard = NoCard
  /\ alertShown = ""
  /\ currentCard = NoCard
  /\ lastCall = NoCall
  /\ exampleGame = NoGame

NextSaves ==
  \/ mountExampleGame
  \/ \E random \in CallPool : callNumber(random)
  \/ \E k \in 1..Len(StoredCards) : saveCardRead(k)
  \/ \E k \in 1..Len(StoredCards) : saveCardWrite(k)

SpecSaves == InitSaves /\ [][NextSaves]_vars

\* ----------------------------------------------------------------- claims

IsStandard(pattern) == pattern.name \notin SpecialNames

\* Every required cell of the grid is marked on the card
AllRequiredMarked(card, grid) ==
  \A pos \in Idx \X Idx : grid[pos[1]][pos[2]] => card.cells[pos[1]][pos[2]].marked

AllCellsMarked(card) ==
  \A pos \in Idx \X Idx : card.cells[pos[1]][pos[2]].marked

\* C1: for a pattern with none of the five special names, checkPattern is
\* true exactly when every required cell of its grid is marked; Full House
\* has no shortcut and is won only with all 25 cells marked.
C1_StandardWinIffAllRequiredMarked ==
  Playing =>
    LET cards == markedCards
        patterns == selectedPatterns
    IN \A i \in 1..Len(cards) : \A j \in 1..Len(patterns) :
      LET card == cards[i]
          pattern == patterns[j]
      IN /\ IsStandard(pattern) =>
              (checkPattern(card, pattern) <=> AllRequiredMarked(card, pattern.grid))
         /\ pattern.name = "Full House" =>
              (checkPattern(card, pattern) <=> AllCellsMarked(card))

\* A call has just completed Full House on cardA while cardB, which holds
\* a number that was never called, has not won it.
C1_Witness ==
  /\ Playing
  /\ <<"cardA", "builtin_full_house">> \in alerts
  /\ <<"cardA", "p_corners">> \in alerts
  /\ <<"cardB", "builtin_full_house">> \notin alerts

\* Two adjacent cells (r, c) and (r + dr, c + dc), neither of them FREE,
\* are both marked
SomePairMarked(card, dr, dc) ==
  \E r \in Idx : \E c \in Idx :
    /\ r + dr <= 4 /\ c + dc <= 4
    /\ card.cells[r][c].value # FREE
    /\ card.cells[r + dr][c + dc].value # FREE
    /\ card.cells[r][c].marked
    /\ card.cells[r + dr][c + dc].marked

SomeRowMarked(card) == \E r \in Idx : \A c \in Idx : card.cells[r][c].marked
SomeColumnMarked(card) == \E c \in Idx : \A r \in Idx : card.cells[r][c].marked
SomeDiagonalMarked(card) ==
  \/ \A i \in Idx : card.cells[i][i].marked
  \/ \A i \in Idx : card.cells[i][4 - i].marked

SpecialWin(card, name) ==
  IF name = "Dikit" THEN SomePairMarked(card, 0, 1)
  ELSE IF name = "Patong" THEN SomePairMarked(card, 1, 0)
  ELSE IF name = "Horizontal Line" THEN SomeRowMarked(card)
  ELSE IF name = "Vertical Line" THEN SomeColumnMarked(card)
  ELSE SomeDiagonalMarked(card)

OtherGrids == {createEmptyPattern, createFullHousePattern, createXPattern}

\* C2: for the five special names checkPattern ignores the grid and is true
\* iff some candidate (pair not touching FREE, row, column, diagonal) is fully
\* marked; when it is true getMissingNumbers and getWinningPaths are empty.
C2_SpecialWinIffCandidateMarked ==
  Playing =>
    LET cards == markedCards
        patterns == selectedPatterns
    IN \A i \in 1..Len(cards) : \A j \in 1..Len(patterns) :
      LET card == cards[i]
          pattern == patterns[j]
      IN pattern.name \in SpecialNames =>
           /\ checkPattern(card, pattern) <=> SpecialWin(card, pattern.name)
           /\ \A g \in OtherGrids :
                checkPattern(card, [pattern EXCEPT !.grid = g]) = checkPattern(card, pattern)
           /\ checkPattern(card, pattern) =>
                /\ getMissingNumbers(card, pattern) = <<>>
                /\ getWinningPaths(card, pattern) = <<>>

\* A call has completed a row of cardA (Horizontal Line and Dikit won) while
\* other rows are partly marked and Diagonal Line is still open.
C2_Witness ==
  /\ Playing
  /\ <<"cardA", "builtin_horizontal_line">> \in alerts
  /\ <<"cardA", "builtin_dikit">> \in alerts
  /\ <<"cardA", "builtin_patong">> \in alerts
  /\ <<"cardA", "builtin_vertical_line">> \notin alerts
  /\ <<"cardA", "builtin_diagonal_line">> \notin alerts

\* The candidate lines of a line pattern
CandidateLines(name) ==
  IF name = "Horizontal Line" THEN RowLines
  ELSE IF name = "Vertical Line" THEN ColLines
  ELSE <<MainDiagonal, AntiDiagonal>>

LineNames == {"Horizontal Line", "Vertical Line", "Diagonal Line"}

\* Number of marked cells of a line, FREE counting as a cell like any other
MarkedOnLine(card, line) ==
  Cardinality({pos \in Range(line) : card.cells[pos[1]][pos[2]].marked})

\* The values of the unmarked cells of a line that are not FREE
UnmarkedOnLine(card, line) ==
  {card.cells[pos[1]][pos[2]].value : pos \in
     {q \in Range(line) : /\ ~card.cells[q[1]][q[2]].marked
                          /\ card.cells[q[1]][q[2]].value # FREE}}

IsMaximum(m, S) == m \in S /\ \A x \in S : x <= m

\* path lists exactly the numbers of the set, each once
ListsExactly(path, numbers) ==
  Range(path) = numbers /\ Len(path) = Cardinality(numbers)

\* C3: on a card that has not won a line pattern, getWinningPaths returns
\* exactly one path for each candidate line whose marked count is the maximum
\* over all candidates and none for a line with a lower count; each path
\* lists that line's unmarked non-FREE values.
C3_LinePathsAreTheBestLines ==
  Playing =>
    LET cards == markedCards
        patterns == selectedPatterns
    IN \A i \in 1..Len(cards) : \A j \in 1..Len(patterns) :
      LET card == cards[i]
          pattern == patterns[j]
          lines == CandidateLines(pattern.name)
          counts == {MarkedOnLine(card, lines[k]) : k \in 1..Len(lines)}
          bestLines == {k \in 1..Len(lines) : IsMaximum(MarkedOnLine(card, lines[k]), counts)}
          paths == getWinningPaths(card, pattern)
      IN (pattern.name \in LineNames /\ ~checkPattern(card, pattern)) =>
           /\ Len(paths) = Cardinality(bestLines)
           /\ \A k \in bestLines :
                \E n \in 1..Len(paths) : ListsExactly(paths[n], UnmarkedOnLine(card, lines[k]))
           /\ \A n \in 1..Len(paths) :
                \E k \in bestLines : ListsExactly(paths[n], UnmarkedOnLine(card, lines[k]))

\* After a call, cardA has its main diagonal 3/5 and its anti-diagonal 2/5
\* marked: only the main diagonal is a path, with 2 missing numbers; its rows
\* 0 and 4 tie at 3/5 and give two separate paths.
C3_Witness ==
  /\ Playing
  /\ Len(session.calledNumbers) > 0
  /\ session.calledNumbers[Len(session.calledNumbers)] = 75
  /\ LET card == markedCards[1]
     IN /\ card.id = "cardA"
        /\ LineMarkedCount(card, MainDiagonal) = 3
        /\ LineMarkedCount(card, AntiDiagonal) = 2
        /\ getWinningPaths(card, builtInPatterns[5]) = <<<<1, 17>>>>
        /\ getWinningPaths(card, builtInPatterns[3]) = <<<<1, 16>>, <<5, 35>>>>

\* The pairs of adjacent cells (r, c), (r + dr, c + dc) without a FREE cell
EligiblePairs(card, dr, dc) ==
  {pair \in (Idx \X Idx) \X (Idx \X Idx) :
     /\ pair[2][1] = pair[1][1] + dr
     /\ pair[2][2] = pair[1][2] + dc
     /\ card.cells[pair[1][1]][pair[1][2]].value # FREE
     /\ card.cells[pair[2][1]][pair[2][2]].value # FREE}

MarkedOfPair(card, pair) ==
  Cardinality({pos \in {pair[1], pair[2]} : card.cells[pos[1]][pos[2]].marked})

UnmarkedOfPair(card, pair) ==
  {card.cells[pos[1]][pos[2]].value : pos \in
     {q \in {pair[1], pair[2]} : ~card.cells[q[1]][q[2]].marked}}

\* C4: for Dikit and Patong, in every reachable marking, every returned path
\* is the unmarked value(s) of one pair that does not touch FREE, has at least
\* one marked cell and whose marked count is the maximum over all eligible
\* pairs; while the pattern is open, every such pair gives a path.
C4_PairPathsAreTheBestPairs ==
  Playing =>
    LET cards == markedCards
        patterns == selectedPatterns
    IN \A i \in 1..Len(cards) : \A j \in 1..Len(patterns) :
      LET card == cards[i]
          pattern == patterns[j]
          eligible == IF pattern.name = "Dikit" THEN EligiblePairs(card, 0, 1)
                      ELSE EligiblePairs(card, 1, 0)
          counts == {MarkedOfPair(card, e) : e \in eligible}
          bestPairs == {e \in eligible : /\ IsMaximum(MarkedOfPair(card, e), counts)
                                         /\ MarkedOfPair(card, e) > 0}
          paths == getWinningPaths(card, pattern)
      IN pattern.name \in {"Dikit", "Patong"} =>
           /\ \A n \in 1..Len(paths) :
                \E e \in bestPairs : ListsExactly(paths[n], UnmarkedOfPair(card, e))
           /\ ~checkPattern(card, pattern) => Len(paths) = Cardinality(bestPairs)

\* Only 16 has been called: on cardA the pairs (1,16) and (16,31) tie with one
\* marked cell and give the Dikit paths [1] and [31]; every other pair has no
\* marked cell and gives none.
C4_Witness ==
  /\ Playing
  /\ session.calledNumbers = <<16>>
  /\ alerts = {}
  /\ markedCards[1].id = "cardA"
  /\ getWinningPaths(markedCards[1], builtInPatterns[1]) = <<<<1>>, <<31>>>>
  /\ getWinningPaths(markedCards[1], builtInPatterns[2]) = <<<<17>>>>

\* The required, unmarked, non-FREE positions of a card for a grid
OpenPositions(card, grid) ==
  {pos \in Idx \X Idx : /\ grid[pos[1]][pos[2]]
                        /\ ~card.cells[pos[1]][pos[2]].marked
                        /\ card.cells[pos[1]][pos[2]].value # FREE}

\* The values at a set of positions, in row-major order
RECURSIVE RowMajorValues(_, _)
RowMajorValues(card, positions) ==
  IF positions = {} THEN <<>>
  ELSE LET first == CHOOSE p \in positions :
                      \A q \in positions : 5 * p[1] + p[2] <= 5 * q[1] + q[2]
       IN <<card.cells[first[1]][first[2]].value>>
          \o RowMajorValues(card, positions \ {first})

\* C5: for every standard pattern, checkPattern is true iff the standard path
\* of missing numbers is empty (getMissingNumbers is [] and getWinningPaths has
\* no path); an open pattern has exactly one path, the values of the required,
\* unmarked, non-FREE cells in row-major order.
C5_StandardWinIffNothingMissing ==
  Playing =>
    LET cards == markedCards
        patterns == selectedPatterns
    IN \A i \in 1..Len(cards) : \A j \in 1..Len(patterns) :
      LET card == cards[i]
          pattern == patterns[j]
          expected == RowMajorValues(card, OpenPositions(card, pattern.grid))
      IN IsStandard(pattern) =>
           /\ checkPattern(card, pattern) <=> getMissingNumbers(card, pattern) = <<>>
           /\ checkPattern(card, pattern) <=> getWinningPaths(card, pattern) = <<>>
           /\ ~checkPattern(card, pattern) =>
                /\ getWinningPaths(card, pattern) = <<expected>>
                /\ getMissingNumbers(card, pattern) = expected

\* A removal has reopened Plus Sign on cardA (one path, in row-major order,
\* the FREE centre not listed) while Four Corners stays open and the single
\* cell pattern is won.
C5_Witness ==
  /\ Playing
  /\ alerts = {}
  /\ session.calledNumbers = <<2>>
  /\ markedCards[1].id = "cardA"
  /\ getWinningPaths(markedCards[1], StoredPatterns[3]) = <<<<31, 32, 3, 18, 48, 63, 34, 35>>>>
  /\ checkPattern(markedCards[1], StoredPatterns[6])
  /\ getWinningPaths(markedCards[1], StoredPatterns[6]) = <<>>
  /\ ~checkPattern(markedCards[1], StoredPatterns[1])

\* The card / pattern a record is about
CardOf(cards, id) == cards[CHOOSE i \in 1..Len(cards) : cards[i].id = id]
PatternOf(patterns, id) == patterns[CHOOSE j \in 1..Len(patterns) : patterns[j].id = id]

TrueCells(grid) == {pos \in Idx \X Idx : grid[pos[1]][pos[2]]}

\* totalRequired by pattern category
RequiredByCategory(pattern) ==
  IF pattern.name \in {"Dikit", "Patong"} THEN 2
  ELSE IF pattern.name \in LineNames THEN 5
  ELSE Cardinality(TrueCells(pattern.grid))

IsOnPotRecord(r) == r.isOnPot
OnPotOf(recs) == SelectSeq(recs, IsOnPotRecord)

\* C6: every non-winner record of analyzeGame describes one winning path of
\* its (card, pattern): totalRequired is 2 / 5 / the number of true grid cells
\* by category, totalMarked = totalRequired - |missingNumbers|, isOnPot iff one
\* number is missing; potCards is exactly the emitted records with isOnPot.
C6_PathRecordsFollowCategoryRule ==
  Playing =>
    LET cards == markedCards
        patterns == selectedPatterns
        ga == analyzeGame(cards, patterns)
    IN /\ \A n \in 1..Len(ga.cardAnalyses) :
            LET r == ga.cardAnalyses[n]
                card == CardOf(cards, r.cardId)
                pattern == PatternOf(patterns, r.patternId)
                paths == getWinningPaths(card, pattern)
            IN ~r.isWinner =>
                 /\ \E k \in 1..Len(paths) : paths[k] = r.missingNumbers
                 /\ r.patternName = pattern.name
                 /\ r.totalRequired = RequiredByCategory(pattern)
                 /\ r.totalMarked = r.totalRequired - Len(r.missingNumbers)
                 /\ r.isOnPot <=> Len(r.missingNumbers) = 1
       /\ ga.potCards = OnPotOf(ga.cardAnalyses)

\* A call has just won something, and the analysis holds an open pair
\* record, a line pattern with tied paths (a record with pathIndex 1, 5
\* required), an open Four Corners record and a non-empty potCards.
C6_Witness ==
  /\ Playing
  /\ alerts # {}
  /\ LET recs == gameAnalysis.cardAnalyses
     IN /\ \E n \in 1..Len(recs) :
             /\ ~recs[n].isWinner
             /\ recs[n].patternName \in {"Dikit", "Patong"}
             /\ recs[n].totalRequired = 2
        /\ \E n \in 1..Len(recs) :
             /\ ~recs[n].isWinner
             /\ recs[n].patternName \in LineNames
             /\ recs[n].pathIndex = 1
             /\ recs[n].totalRequired = 5
        /\ \E n \in 1..Len(recs) :
             /\ ~recs[n].isWinner
             /\ recs[n].patternName = "Four Corners"
             /\ recs[n].totalRequired = 4
             /\ recs[n].totalMarked = 1
        /\ Len(gameAnalysis.potCards) > 0

\* No candidate cell of the pattern is marked on the card: no cell of an
\* eligible pair, no cell of a candidate line, no required cell of the grid
NoCandidateMarked(card, pattern) ==
  IF pattern.name = "Dikit"
  THEN \A pair \in EligiblePairs(card, 0, 1) : MarkedOfPair(card, pair) = 0
  ELSE IF pattern.name = "Patong"
  THEN \A pair \in EligiblePairs(card, 1, 0) : MarkedOfPair(card, pair) = 0
  ELSE IF pattern.name \in LineNames
  THEN \A k \in 1..Len(CandidateLines(pattern.name)) :
         MarkedOnLine(card, CandidateLines(pattern.name)[k]) = 0
  ELSE /\ TrueCells(pattern.grid) # {}
       /\ \A pos \in TrueCells(pattern.grid) : ~card.cells[pos[1]][pos[2]].marked

\* The records of a list that are about one (card, pattern)
RecordsOfPair(recs, cardId, patternId) ==
  {n \in 1..Len(recs) : recs[n].cardId = cardId /\ recs[n].patternId = patternId}

\* The numbers the non-winner records of a list are missing
MissingOfOpenRecords(recs) ==
  UNION {Range(recs[n].missingNumbers) : n \in {m \in 1..Len(recs) : ~recs[m].isWinner}}

\* C7: analyzeGame never surfaces a path with zero marked progress: every
\* non-winner record has totalMarked >= 1 and at least one missing number, a
\* (card, pattern) none of whose candidate cells is marked has no record, and
\* nextNumbersToWatch holds only numbers of emitted non-winner records.
C7_NoZeroProgressPath ==
  Playing =>
    LET cards == markedCards
        patterns == selectedPatterns
        ga == analyzeGame(cards, patterns)
    IN /\ \A n \in 1..Len(ga.cardAnalyses) :
            ~ga.cardAnalyses[n].isWinner =>
               /\ ga.cardAnalyses[n].totalMarked >= 1
               /\ Len(ga.cardAnalyses[n].missingNumbers) >= 1
       /\ \A ci \in 1..Len(cards) : \A pi \in 1..Len(patterns) :
            NoCandidateMarked(cards[ci], patterns[pi]) =>
               /\ RecordsOfPair(ga.cardAnalyses, cards[ci].id, patterns[pi].id) = {}
               /\ analyzePair(cards[ci], patterns[pi]).watch = <<>>
       /\ Range(ga.nextNumbersToWatch) = MissingOfOpenRecords(ga.cardAnalyses)

\* Only a number that is on no card has been called: Dikit, Patong and
\* Four Corners have no marked candidate, the lines through FREE are reported.
C7_Witness ==
  /\ Playing
  /\ session.calledNumbers = <<75>>
  /\ LET cards == markedCards
         patterns == selectedPatterns
     IN /\ \E ci \in 1..Len(cards) :
             /\ \E pi \in 1..Len(patterns) :
                  patterns[pi].name = "Dikit" /\ NoCandidateMarked(cards[ci], patterns[pi])
             /\ \E pi \in 1..Len(patterns) :
                  /\ patterns[pi].name = "Four Corners"
                  /\ NoCandidateMarked(cards[ci], patterns[pi])
                  /\ Len(getWinningPaths(cards[ci], patterns[pi])) = 1
        /\ Len(gameAnalysis.cardAnalyses) > 0
        /\ gameAnalysis.nextNumbersToWatch # <<>>

\* C8: for every (card, pattern) that checkPattern reports as won, analyzeGame
\* emits exactly one record for the pair, with isWinner true, isOnPot false and
\* no missing number; the record is in winningCards, and the pair has no path
\* record, no potCards entry and adds nothing to nextNumbersToWatch.
C8_WonPairHasOneWinnerRecord ==
  Playing =>
    LET cards == markedCards
        patterns == selectedPatterns
        ga == analyzeGame(cards, patterns)
    IN \A ci \in 1..Len(cards) : \A pi \in 1..Len(patterns) :
         checkPattern(cards[ci], patterns[pi]) =>
           LET mine == RecordsOfPair(ga.cardAnalyses, cards[ci].id, patterns[pi].id)
               won == RecordsOfPair(ga.winningCards, cards[ci].id, patterns[pi].id)
           IN /\ Cardinality(mine) = 1
              /\ \A n \in mine :
                   /\ ga.cardAnalyses[n].isWinner
                   /\ ~ga.cardAnalyses[n].isOnPot
                   /\ ga.cardAnalyses[n].missingNumbers = <<>>
                   /\ \E w \in won : ga.winningCards[w] = ga.cardAnalyses[n]
              /\ Cardinality(won) = 1
              /\ RecordsOfPair(ga.potCards, cards[ci].id, patterns[pi].id) = {}
              /\ analyzePair(cards[ci], patterns[pi]).watch = <<>>

\* A call has just completed a pattern; a pair pattern and a standard
\* pattern are won while other pairs are still open and watched.
C8_Witness ==
  /\ Playing
  /\ alerts # {}
  /\ LET ga == gameAnalysis
     IN /\ \E w \in 1..Len(ga.winningCards) :
             ga.winningCards[w].patternName \in {"Dikit", "Patong"}
        /\ \E w \in 1..Len(ga.winningCards) :
             /\ ~isBuiltInPattern(ga.winningCards[w].patternName)
             /\ <<ga.winningCards[w].cardId, ga.winningCards[w].patternId>> \in alerts
        /\ Len(ga.cardAnalyses) > Len(ga.winningCards)
        /\ ga.nextNumbersToWatch # <<>>

\* C9: isOnPot(card, pattern) is true exactly when the aggregated best missing
\* set of getMissingNumbers has one element, that set being the union of the
\* winning paths; the on-pot flag of an analyzeGame record is about its own
\* path alone.
C9_OnPotIsAggregateRecordsArePerPath ==
  Playing =>
    LET cards == markedCards
        patterns == selectedPatterns
        ga == analyzeGame(cards, patterns)
    IN /\ \A ci \in 1..Len(cards) : \A pi \in 1..Len(patterns) :
            LET missing == getMissingNumbers(cards[ci], patterns[pi])
                paths == getWinningPaths(cards[ci], patterns[pi])
            IN /\ isOnPot(cards[ci], patterns[pi]) <=> Cardinality(Range(missing)) = 1
               /\ Cardinality(Range(missing)) = Len(missing)
               /\ Range(missing) = UNION {Range(paths[k]) : k \in 1..Len(paths)}
       /\ \A n \in 1..Len(ga.cardAnalyses) :
            ~ga.cardAnalyses[n].isWinner =>
              (ga.cardAnalyses[n].isOnPot <=> Len(ga.cardAnalyses[n].missingNumbers) = 1)

\* The two disagree: 16 alone is called, Dikit on cardA has the tied paths
\* [1] and [31], isOnPot is false and both records are on pot.
C9_Witness ==
  /\ Playing
  /\ session.calledNumbers = <<16>>
  /\ LET cards == markedCards
         patterns == selectedPatterns
         ga == analyzeGame(cards, patterns)
     IN \E ci \in 1..Len(cards) : \E pi \in 1..Len(patterns) :
          LET mine == RecordsOfPair(ga.cardAnalyses, cards[ci].id, patterns[pi].id)
          IN /\ cards[ci].id = "cardA"
             /\ patterns[pi].name = "Dikit"
             /\ getWinningPaths(cards[ci], patterns[pi]) = <<<<1>>, <<31>>>>
             /\ getMissingNumbers(cards[ci], patterns[pi]) = <<1, 31>>
             /\ ~isOnPot(cards[ci], patterns[pi])
             /\ Cardinality(mine) = 2
             /\ \A n \in mine : ga.cardAnalyses[n].isOnPot
             /\ Cardinality(RecordsOfPair(ga.potCards, "cardA", patterns[pi].id)) = 2

\* The stored card a marked card comes from
StoredCardOf(id) == CardOf(StoredCards, id)

\* C10: the cards handed to the matcher have a cell marked iff its value is
\* FREE or is in calledNumbers, whatever marks the stored card carries; the
\* stored cards keep their values and marks, and applying the called numbers
\* a second time changes nothing.
C10_MarkedIffFreeOrCalled ==
  Playing =>
    LET cards == markedCards
    IN /\ Len(cards) = Len(selectedCards)
       /\ \A i \in 1..Len(cards) :
            /\ cards[i].id = selectedCards[i].id
            /\ selectedCards[i] = StoredCardOf(cards[i].id)
            /\ \A r \in Idx : \A c \in Idx :
                 /\ cards[i].cells[r][c].value = selectedCards[i].cells[r][c].value
                 /\ cards[i].cells[r][c].column = selectedCards[i].cells[r][c].column
                 /\ cards[i].cells[r][c].marked <=>
                      \/ cards[i].cells[r][c].value = FREE
                      \/ cards[i].cells[r][c].value \in Range(session.calledNumbers)
       /\ applyCalledNumbersToCards(cards, session.calledNumbers) = cards

\* cardB is in play with numbers called, 16 not among them: its stored mark
\* on 16 is dropped, its stored unmarked FREE is marked, a called number is
\* marked, and the stored card still carries what it carried.
C10_Witness ==
  /\ Playing
  /\ session.calledNumbers # <<>>
  /\ ~Includes(session.calledNumbers, 16)
  /\ Includes(session.calledNumbers, 1)
  /\ \E i \in 1..Len(markedCards) :
       /\ markedCards[i].id = "cardB"
       /\ markedCards[i].cells[2][2].marked
       /\ ~selectedCards[i].cells[2][2].marked
       /\ \E r \in Idx : \E c \in Idx :
            /\ markedCards[i].cells[r][c].value = 16
            /\ ~markedCards[i].cells[r][c].marked
            /\ selectedCards[i].cells[r][c].marked
       /\ \E r \in Idx : \E c \in Idx :
            /\ markedCards[i].cells[r][c].value = 1
            /\ markedCards[i].cells[r][c].marked
            /\ ~selectedCards[i].cells[r][c].marked

\* C11: markNumber(card, n) returns a card that differs from its argument
\* only in that every cell whose value is n is marked: id, values and columns
\* are kept, no cell is unmarked, and a number on no cell changes no mark.
C11_MarkNumberMarksOnlyCellsWithTheNumber ==
  currentCard # NoCard =>
    \A n \in 1..MaxBingoNumber :
      LET marked == markNumber(currentCard, n)
      IN /\ marked.id = currentCard.id
         /\ \A row \in Idx : \A col \in Idx :
              /\ marked.cells[row][col].value = currentCard.cells[row][col].value
              /\ marked.cells[row][col].column = currentCard.cells[row][col].column
              /\ marked.cells[row][col].marked =
                   (\/ currentCard.cells[row][col].marked
                    \/ currentCard.cells[row][col].value = n)

\* a card with marked and unmarked numbers, marked by the game flow and saved
C11_Witness ==
  /\ currentCard # NoCard
  /\ cardStore # <<>>
  /\ cardStore[Len(cardStore)] = currentCard
  /\ \E row \in Idx : \E col \in Idx :
       /\ currentCard.cells[row][col].marked
       /\ currentCard.cells[row][col].value \in 1..MaxBingoNumber
  /\ \E row \in Idx : \E col \in Idx :
       /\ ~currentCard.cells[row][col].marked
       /\ currentCard.cells[row][col].value \in 1..MaxBingoNumber

\* The standard patterns and the three line patterns of the pattern list
LineAndStandardPatterns ==
  SelectSeq(getAllPatterns(patternStore),
            LAMBDA p : p.name \notin {"Dikit", "Patong"})

NumbersOf(c) ==
  {c.cells[pos[1]][pos[2]].value : pos \in Idx \X Idx} \ {FREE}

\* C12: once every one of the 24 numbers of a card is marked, by successive
\* markNumber calls or by applyCalledNumbersToCards, checkPattern is true on
\* that card for every standard pattern and for Horizontal Line, Vertical
\* Line and Diagonal Line.
C12_AllNumbersMarkedWinsEveryPattern ==
  /\ (currentCard # NoCard /\ UnmarkedNumbers(currentCard) = {}) =>
       \A i \in 1..Len(LineAndStandardPatterns) :
         checkPattern(currentCard, LineAndStandardPatterns[i])
  /\ \A k \in 1..Len(cardStore) :
       LET allMarked ==
             applyCalledNumbersToCards(<<cardStore[k]>>,
                                       SortSet(NumbersOf(cardStore[k])))[1]
       IN \A i \in 1..Len(LineAndStandardPatterns) :
            checkPattern(allMarked, LineAndStandardPatterns[i])

\* the card of the manual creator after markNumber for each of its numbers
C12_Witness ==
  /\ currentCard # NoCard
  /\ currentCard.id = "card_manual"
  /\ UnmarkedNumbers(currentCard) = {}
  /\ ~currentCard.cells[2][2].marked

\* C13: analyzeGame's nextNumbersToWatch is sorted ascending without a
\* duplicate and holds exactly the numbers found in the missingNumbers of the
\* records of cardAnalyses of the same call.
C13_WatchListIsSortedUnionOfMissing ==
  Playing =>
    LET ga == gameAnalysis
        watch == ga.nextNumbersToWatch
    IN /\ \A i \in 1..Len(watch) : \A j \in 1..Len(watch) :
            i < j => watch[i] < watch[j]
       /\ Range(watch) =
            UNION {Range(ga.cardAnalyses[n].missingNumbers) :
                     n \in 1..Len(ga.cardAnalyses)}

\* two records of the same call miss a common number, and the list has
\* several numbers to order
C13_Witness ==
  /\ Playing
  /\ Len(session.calledNumbers) > 0
  /\ LET ga == gameAnalysis
     IN /\ Len(ga.nextNumbersToWatch) > 2
        /\ \E n \in 1..Len(ga.cardAnalyses) : \E m \in 1..Len(ga.cardAnalyses) :
             /\ n # m
             /\ Range(ga.cardAnalyses[n].missingNumbers)
                  \cap Range(ga.cardAnalyses[m].missingNumbers) # {}
        /\ \E n \in 1..Len(ga.cardAnalyses) : ga.cardAnalyses[n].isWinner

\* The card handleGenerateCard has just stored, before the game flow takes it
FreshlyGenerated ==
  /\ alertShown = "New card generated!"
  /\ currentCard = NoCard
  /\ cardStore # <<>>

\* C14: every card generateBingoCard returns is a 5 x 5 grid whose centre is
\* FREE and marked and whose other cells are unmarked, hold a number of their
\* column's range and repeat no number; validateBingoCard (so no "Error"
\* alert) and validateCompleteCard accept it.
C14_GeneratedCardIsWellFormed ==
  /\ alertShown # "Error"
  /\ FreshlyGenerated =>
       LET c == cardStore[Len(cardStore)]
           positions == (Idx \X Idx) \ {<<2, 2>>}
       IN /\ DOMAIN c.cells = Idx
          /\ \A row \in Idx : DOMAIN c.cells[row] = Idx
          /\ c.cells[2][2] = [column |-> "N", value |-> FREE, marked |-> TRUE]
          /\ \A pos \in positions :
               /\ ~c.cells[pos[1]][pos[2]].marked
               /\ c.cells[pos[1]][pos[2]].column = COLUMNS[pos[2] + 1]
               /\ c.cells[pos[1]][pos[2]].value \in
                    ColumnMin(pos[2])..ColumnMax(pos[2])
          /\ \A pos \in positions : \A other \in positions :
               pos # other =>
                 c.cells[pos[1]][pos[2]].value # c.cells[other[1]][other[2]].value
          /\ validateBingoCard(c)
          /\ validateCompleteCard(c).isValid

\* a generated card whose column B is not the first five draws: the
\* generator had to drop a repeated draw
C14_Witness ==
  /\ FreshlyGenerated
  /\ \E seed \in Seeds :
       /\ cardStore[1].id = GeneratedIds[seed]
       /\ generateColumnNumbers(0, 5, seed, 0).k > 5
  /\ cardStore[1].cells[3][2].value \in ColumnMin(2)..ColumnMax(2)

CentreIsFreeAndMarked(c) ==
  /\ c.cells[2][2].value = FREE
  /\ c.cells[2][2].marked

\* C15: the centre cell (2,2) is FREE and marked on every card of the
\* library: generated by generateBingoCard, saved by the manual creator with
\* or without Auto-Fill, and after markNumber or resetCard on such a card.
C15_CentreAlwaysFreeAndMarked ==
  /\ \A k \in 1..Len(cardStore) : CentreIsFreeAndMarked(cardStore[k])
  /\ currentCard # NoCard => CentreIsFreeAndMarked(currentCard)

\* the creator has just saved a card that never went through Auto-Fill
C15_Witness ==
  /\ alertShown = "Card saved successfully!"
  /\ cardStore # <<>>
  /\ cardStore[1].id = "card_manual"
  /\ cardStore[1].cells[2][2].value = FREE
  /\ ~cardStore[1].cells[2][2].marked

\* The numbers the entry check is asked about, NaN never reaching it
ProbeNumbers == (EntryInputs \ {NaN}) \cup {15, 75}

EntryPositions == (Idx \X Idx) \ {<<2, 2>>}

IsNumberCell(c, pos) == c.cells[pos[1]][pos[2]].value \notin {FREE, EMPTY, UNSET}

\* Every number on the card is in its column's range and on one cell only
RangeAndUniquenessKept(c) ==
  /\ \A pos \in EntryPositions :
       IsNumberCell(c, pos) =>
         c.cells[pos[1]][pos[2]].value \in ColumnMin(pos[2])..ColumnMax(pos[2])
  /\ \A pos \in EntryPositions : \A other \in EntryPositions :
       (pos # other /\ IsNumberCell(c, pos)) =>
         c.cells[pos[1]][pos[2]].value # c.cells[other[1]][other[2]].value

\* C17: validateNumberEntry(card, n, row, col) is valid exactly when n is in
\* the range of column col and no cell other than (row, col) holds n, and an
\* invalid result carries a reason; therefore the creator's card, filled by
\* accepted entries only, keeps range and uniqueness and passes
\* validateCompleteCard once none of its 24 cells is empty.
C17_EntryAcceptedIffInRangeAndUnused ==
  manualCard # NoCard =>
    /\ \A pos \in EntryPositions : \A n \in ProbeNumbers :
         LET result == validateNumberEntry(manualCard, n, pos[1], pos[2])
         IN /\ result.isValid =
                 (/\ n \in ColumnMin(pos[2])..ColumnMax(pos[2])
                  /\ \A other \in EntryPositions :
                       other # pos =>
                         manualCard.cells[other[1]][other[2]].value # n)
            /\ ~result.isValid => result.error # ""
    /\ RangeAndUniquenessKept(manualCard)
    /\ (\A pos \in EntryPositions : IsNumberCell(manualCard, pos)) =>
         validateCompleteCard(manualCard).isValid

\* the creator's card is full after accepted entries, and the entry just
\* typed was refused
C17_Witness ==
  /\ manualCard # NoCard
  /\ manualCard.id = "card_manual"
  /\ \A pos \in EntryPositions : IsNumberCell(manualCard, pos)
  /\ manualCard.cells[0][0].value # ValuesA[0][0]
  /\ alertShown = "Invalid Number"

\* C20: a confirmed Auto-Fill keeps every number entered by hand and fills
\* every empty cell with a valid number, so that afterwards the card has no
\* empty cell and passes validateCompleteCard.
C20_AutoFillCompletesTheCard ==
  [][(alertShown' = "Auto-Fill" /\ manualCard # NoCard) =>
       /\ \A pos \in EntryPositions :
            IsNumberCell(manualCard, pos) =>
              manualCard'.cells[pos[1]][pos[2]].value =
                manualCard.cells[pos[1]][pos[2]].value
       /\ \A pos \in EntryPositions : IsNumberCell(manualCard', pos)
       /\ validateCompleteCard(manualCard').isValid]_vars

\* Auto-Fill has run on a card with empty cells and they are still empty
C20_Witness ==
  /\ alertShown = "Auto-Fill"
  /\ manualCard # NoCard
  /\ manualCard.id \in Range(GeneratedIds)
  /\ manualCard.cells[2][2].marked
  /\ \E pos \in EntryPositions : manualCard.cells[pos[1]][pos[2]].value = EMPTY
  /\ ~validateCompleteCard(manualCard).isValid

\* C18: getClosestPatterns(card, patterns, K) returns at most K records,
\* none for a pattern the card has won, in ascending order of the number of
\* missing numbers, and every non-won pattern it leaves out misses at least
\* as many numbers as each returned one.
C18_ClosestPatternsAreTheLeastMissing ==
  Playing =>
    LET cards == markedCards
        patterns == allPatterns
    IN \A ci \in 1..Len(cards) :
         LET all == <<>> \o [i \in 1..Len(patterns) |->
                       analyzeCardForPattern(cards[ci], patterns[i])]
         IN \A K \in 0..MaxLimit :
              LET closest == getClosestPatterns(cards[ci], patterns, K)
                  returned == {closest[n].patternId : n \in 1..Len(closest)}
              IN /\ Len(closest) <= K
                 /\ \A n \in 1..Len(closest) :
                      /\ ~closest[n].isWinner
                      /\ \E i \in 1..Len(patterns) :
                           /\ patterns[i].id = closest[n].patternId
                           /\ ~checkPattern(cards[ci], patterns[i])
                           /\ closest[n] = all[i]
                 /\ \A n \in 1..Len(closest) : \A m \in 1..Len(closest) :
                      n < m => Len(closest[n].missingNumbers)
                                 <= Len(closest[m].missingNumbers)
                 /\ \A i \in 1..Len(patterns) :
                      (~all[i].isWinner /\ all[i].patternId \notin returned) =>
                        \A n \in 1..Len(closest) :
                          Len(all[i].missingNumbers)
                            >= Len(closest[n].missingNumbers)

\* a card with a won pattern, and open patterns in an order that differs
\* from the order of their missing counts, more of them than the limit
C18_Witness ==
  /\ Playing
  /\ \E ci \in 1..Len(markedCards) :
       LET all == <<>> \o [i \in 1..Len(allPatterns) |->
                     analyzeCardForPattern(markedCards[ci], allPatterns[i])]
           closest == getClosestPatterns(markedCards[ci], allPatterns, MaxLimit)
       IN /\ \E i \in 1..Len(all) : all[i].isWinner
          /\ Len(closest) = MaxLimit
          /\ Len(notWinners(all)) > MaxLimit
          /\ Len(closest[1].missingNumbers) < Len(closest[MaxLimit].missingNumbers)
          /\ \E i \in 1..Len(all) : \E j \in 1..Len(all) :
               /\ i < j
               /\ ~all[i].isWinner /\ ~all[j].isWinner
               /\ Len(all[i].missingNumbers) > Len(all[j].missingNumbers)

\* C16: whatever savePattern, deletePattern and import calls have been made,
\* getAllPatterns starts with the six built-in patterns, each with its
\* built-in id and original grid, and lists no other pattern under one of
\* their names; savePattern and deletePattern called with a built-in id throw
\* and leave the stored patterns as they were.
C16_BuiltInsAreImmutable ==
  [][LET listed == getAllPatterns(patternStore')
     IN /\ Len(listed) >= Len(builtInPatterns)
        /\ SubSeq(listed, 1, Len(builtInPatterns)) = builtInPatterns
        /\ \A i \in (Len(builtInPatterns) + 1)..Len(listed) :
             ~isBuiltInPattern(listed[i].name)
        /\ (/\ lastCall'.op \in {"savePattern", "deletePattern"}
            /\ lastCall'.id \in BuiltInIds) =>
             /\ lastCall'.error # ""
             /\ patternStore' = patternStore]_vars

\* a save under a built-in id has just been refused while storage holds a
\* user pattern and one that took the name Full House
C16_Witness ==
  /\ lastCall.op = "savePattern"
  /\ lastCall.id = "builtin_dikit"
  /\ lastCall.error # ""
  /\ Len(getAllPatterns(patternStore)) > Len(builtInPatterns)
  /\ \E i \in 1..Len(patternStore) : patternStore[i].name = "Full House"

\* C19: on a first launch, with no pattern stored, initializeApp saves the
\* predefined patterns, so that getAllPatterns then returns Four Corners,
\* X-Shape, Plus Sign and the others with the built-ins; on a later launch
\* it saves nothing.
C19_FirstLaunchSavesPredefinedPatterns ==
  [][lastCall'.op = "initializeApp" =>
       IF patternStore = <<>>
       THEN \A i \in 1..Len(getPredefinedPatterns) :
              \E j \in 1..Len(getAllPatterns(patternStore')) :
                /\ getAllPatterns(patternStore')[j].name = getPredefinedPatterns[i].name
                /\ getAllPatterns(patternStore')[j].grid = getPredefinedPatterns[i].grid
       ELSE patternStore' = patternStore]_vars

\* initializeApp has run on empty storage and storage is still empty
C19_Witness ==
  /\ lastCall.op = "initializeApp"
  /\ patternStore = <<>>
  /\ \A j \in 1..Len(getAllPatterns(patternStore)) :
       getAllPatterns(patternStore)[j].name # "Four Corners"

Distinct(xs) == \A i \in 1..Len(xs) : \A j \in 1..Len(xs) : i # j => xs[i] # xs[j]

\* C21: addCalledNumber throws "Invalid Bingo number" for a number that is
\* no integer of 1..75 and "Number already called" for a number already in
\* the list, and the session is then the one before; otherwise it appends
\* the number. So from createGameSession on, calledNumbers holds distinct
\* integers of 1..75 in calling order, and removing a number just added
\* gives back the list before the call.
C21_CallHistoryIsValidDistinctAndOrdered ==
  [][/\ Distinct(session'.calledNumbers)
     /\ \A i \in 1..Len(session'.calledNumbers) :
          /\ IsInteger(session'.calledNumbers[i])
          /\ session'.calledNumbers[i] \in MinBingoNumber..MaxBingoNumber
     /\ lastCall'.op = "addCalledNumber" =>
          LET n == lastCall'.number
              invalid == ~IsInteger(n) \/ n < MinBingoNumber \/ n > MaxBingoNumber
              repeated == \E i \in 1..Len(session.calledNumbers) :
                            session.calledNumbers[i] = n
          IN /\ invalid => lastCall'.error = "Invalid Bingo number"
             /\ (~invalid /\ repeated) => lastCall'.error = "Number already called"
             /\ (~invalid /\ ~repeated) => lastCall'.error = ""
             /\ lastCall'.error # "" => session' = session
             /\ lastCall'.error = "" =>
                  /\ session'.calledNumbers = Append(session.calledNumbers, n)
                  /\ removeCalledNumber(session', n).calledNumbers
                       = session.calledNumbers
     /\ lastCall'.op = "removeCalledNumber" =>
          session'.calledNumbers =
            SelectSeq(session.calledNumbers, LAMBDA m : m # lastCall'.number)]_vars

\* a repeated number has just been refused on a history of several numbers
\* that were not called in numeric order
C21_Witness ==
  /\ lastCall.op = "addCalledNumber"
  /\ lastCall.error = "Number already called"
  /\ Len(session.calledNumbers) >= 3
  /\ session.calledNumbers[1] = PoolOrder[2]
  /\ session.calledNumbers[3] = PoolOrder[1]

\* C22: analyzeCardForPattern reports totalRequired = 2 for Dikit and Patong
\* and the number of true grid cells for every other pattern, with
\* totalMarked = totalRequired - |missingNumbers|; the winner records of
\* analyzeGame carry the totalRequired of the path-record rule.
C22_TotalRequiredIsTheGridCount ==
  Playing =>
    LET cards == markedCards
        patterns == selectedPatterns
        ga == analyzeGame(cards, patterns)
    IN /\ \A ci \in 1..Len(cards) : \A pi \in 1..Len(patterns) :
            LET record == analyzeCardForPattern(cards[ci], patterns[pi])
            IN /\ record.totalRequired =
                    (IF patterns[pi].name \in {"Dikit", "Patong"} THEN 2
                     ELSE GridCount(patterns[pi].grid))
               /\ record.totalMarked =
                    record.totalRequired - Len(record.missingNumbers)
       /\ \A n \in 1..Len(ga.cardAnalyses) :
            ga.cardAnalyses[n].isWinner =>
              \E pi \in 1..Len(patterns) :
                /\ patterns[pi].id = ga.cardAnalyses[n].patternId
                /\ ga.cardAnalyses[n].totalRequired = pathTotalRequired(patterns[pi])

\* analyzeGame emits a winner record for Four Corners that requires 6 cells
C22_Witness ==
  /\ Playing
  /\ \E n \in 1..Len(gameAnalysis.cardAnalyses) :
       /\ gameAnalysis.cardAnalyses[n].isWinner
       /\ gameAnalysis.cardAnalyses[n].patternName = "Four Corners"
       /\ gameAnalysis.cardAnalyses[n].totalRequired = 6
       /\ gameAnalysis.cardAnalyses[n].totalMarked = 6

\* A step in which one more number is called in a running game
NumberCalled ==
  /\ Playing
  /\ Playing'
  /\ Len(session'.calledNumbers) = Len(session.calledNumbers) + 1
  /\ SubSeq(session'.calledNumbers, 1, Len(session.calledNumbers))
       = session.calledNumbers
  /\ session'.activeCardIds = session.activeCardIds
  /\ session'.activePatternIds = session.activePatternIds
  /\ allCards' = allCards
  /\ allPatterns' = allPatterns

\* C23: no win comes without a prior on-pot record: whenever calling n turns
\* checkPattern from false to true for an active card and pattern, the
\* analyzeGame result of before the call has an on-pot record for that card
\* and pattern whose missingNumbers is [n].
C23_WinIsAnnouncedByOnPotRecord ==
  [][NumberCalled =>
       LET n == session'.calledNumbers[Len(session'.calledNumbers)]
           before == markedCards
           after == markedCards'
           patterns == selectedPatterns
           records == gameAnalysis.cardAnalyses
       IN \A ci \in 1..Len(before) : \A pi \in 1..Len(patterns) :
            (/\ validatePattern(patterns[pi].grid)
             /\ ~checkPattern(before[ci], patterns[pi])
             /\ checkPattern(after[ci], patterns[pi])) =>
              \E k \in 1..Len(records) :
                /\ records[k].cardId = before[ci].id
                /\ records[k].patternId = patterns[pi].id
                /\ records[k].isOnPot
                /\ records[k].missingNumbers = <<n>>]_vars

\* the one-cell pattern has just been won by the first call of the game
C23_Witness ==
  /\ Playing
  /\ Len(session.calledNumbers) = 1
  /\ \E k \in 1..Len(gameAnalysis.winningCards) :
       /\ gameAnalysis.winningCards[k].patternId = "p_single"
       /\ validatePattern(PatternOf(allPatterns, "p_single").grid)

\* C24: an on-pot record is truthful: when analyzeGame emits a record for a
\* card and a pattern with isOnPot and missingNumbers = [n], then once n is
\* added to calledNumbers and the marks are derived again, checkPattern is
\* true for the pair and analyzeGame lists it as a winner.
C24_OnPotRecordIsTruthful ==
  Playing =>
    LET patterns == selectedPatterns
        records == gameAnalysis.cardAnalyses
    IN \A k \in 1..Len(records) :
         (records[k].isOnPot /\ Len(records[k].missingNumbers) = 1) =>
           LET n == records[k].missingNumbers[1]
               called == addCalledNumber(session, n).calledNumbers
               after == applyCalledNumbersToCards(
                          <<CardOf(selectedCards, records[k].cardId)>>, called)
               pattern == PatternOf(patterns, records[k].patternId)
               winners == analyzeGame(after, <<pattern>>).winningCards
           IN /\ addCalledNumberError(session, n) = ""
              /\ checkPattern(after[1], pattern)
              /\ Len(winners) = 1
              /\ winners[1].cardId = records[k].cardId
              /\ winners[1].patternId = records[k].patternId
              /\ winners[1].isWinner

\* the number of an on-pot record has just been called: before the call the
\* pair had an on-pot path record for it, and a line pattern is among them
C24_Witness ==
  /\ Playing
  /\ Len(session.calledNumbers) > 1
  /\ LET n == session.calledNumbers[Len(session.calledNumbers)]
         earlier == SubSeq(session.calledNumbers, 1, Len(session.calledNumbers) - 1)
         pot == analyzeGame(applyCalledNumbersToCards(selectedCards, earlier),
                            selectedPatterns).potCards
     IN \E k \in 1..Len(pot) :
          /\ pot[k].missingNumbers = <<n>>
          /\ pot[k].patternName \in LineNames
          /\ \E w \in 1..Len(gameAnalysis.winningCards) :
               /\ gameAnalysis.winningCards[w].cardId = pot[k].cardId
               /\ gameAnalysis.winningCards[w].patternId = pot[k].patternId

\* C25: every record analyzeCardForPattern returns, whatever the pattern
\* category and the marking, has 0 <= totalMarked <= totalRequired.
C25_TotalMarkedWithinBounds ==
  Playing =>
    LET cards == markedCards
    IN \A ci \in 1..Len(cards) : \A pi \in 1..Len(allPatterns) :
         LET record == analyzeCardForPattern(cards[ci], allPatterns[pi])
         IN /\ 0 <= record.totalMarked
            /\ record.totalMarked <= record.totalRequired

\* an open line pattern whose best lines tie and together miss more numbers
\* than totalRequired
C25_Witness ==
  /\ Playing
  /\ \E ci \in 1..Len(markedCards) : \E pi \in 1..Len(allPatterns) :
       LET record == analyzeCardForPattern(markedCards[ci], allPatterns[pi])
       IN /\ record.patternName \in LineNames
          /\ ~record.isWinner
          /\ Len(record.missingNumbers) > record.totalRequired
          /\ record.totalMarked < 0

\* C26: in every record analyzeCardForPattern returns, missingNumbers is
\* empty exactly when isWinner is true and totalMarked = totalRequired only
\* for a winner; so a card with no marked cell in any eligible pair is not
\* reported as an open Dikit or Patong with nothing missing.
C26_NothingMissingIffWinner ==
  Playing =>
    LET cards == markedCards
    IN \A ci \in 1..Len(cards) : \A pi \in 1..Len(allPatterns) :
         LET record == analyzeCardForPattern(cards[ci], allPatterns[pi])
         IN /\ (record.missingNumbers = <<>>) = record.isWinner
            /\ record.totalMarked = record.totalRequired => record.isWinner

\* an open Dikit with no marked cell in any eligible pair is reported with
\* nothing missing and both cells marked, and getClosestPatterns ranks it first
C26_Witness ==
  /\ Playing
  /\ \E ci \in 1..Len(markedCards) :
       LET pattern == PatternOf(allPatterns, "builtin_dikit")
           record == analyzeCardForPattern(markedCards[ci], pattern)
       IN /\ NoCandidateMarked(markedCards[ci], pattern)
          /\ ~record.isWinner
          /\ record.missingNumbers = <<>>
          /\ record.totalMarked = 2
          /\ getClosestPatterns(markedCards[ci], allPatterns, 1)[1].patternId
               = "builtin_dikit"

\* A step of a running game that keeps the selection of cards and patterns
GameStep ==
  /\ Playing
  /\ Playing'
  /\ session'.activeCardIds = session.activeCardIds
  /\ session'.activePatternIds = session.activePatternIds
  /\ allCards' = allCards
  /\ allPatterns' = allPatterns

\* C27: wins are monotone in calls: a pair that checkPattern reports won on
\* the cards derived from calledNumbers is still won after one more call; a
\* win is lost only when numbers leave calledNumbers (remove, clear all), and
\* a removal unmarks exactly the cells that hold a removed number, on every
\* active card.
C27_WinsAreMonotoneInCalls ==
  [][GameStep =>
       LET before == markedCards
           after == markedCards'
           patterns == selectedPatterns
           removed == Range(session.calledNumbers) \ Range(session'.calledNumbers)
       IN /\ NumberCalled =>
               \A ci \in 1..Len(before) : \A pi \in 1..Len(patterns) :
                 checkPattern(before[ci], patterns[pi]) =>
                   checkPattern(after[ci], patterns[pi])
          /\ (\E ci \in 1..Len(before) : \E pi \in 1..Len(patterns) :
                /\ checkPattern(before[ci], patterns[pi])
                /\ ~checkPattern(after[ci], patterns[pi])) =>
               /\ removed # {}
               /\ Range(session'.calledNumbers) \subseteq Range(session.calledNumbers)
          /\ (removed # {} /\ Len(after) = Len(before)) =>
               \A ci \in 1..Len(before) : \A pos \in Idx \X Idx :
                 /\ after[ci].cells[pos[1]][pos[2]].value
                      = before[ci].cells[pos[1]][pos[2]].value
                 /\ after[ci].cells[pos[1]][pos[2]].marked =
                      (/\ before[ci].cells[pos[1]][pos[2]].marked
                       /\ before[ci].cells[pos[1]][pos[2]].value \notin removed)]_vars

\* a number of the restored late game has been removed and a pattern that
\* was won with it is open again
C27_Witness ==
  /\ Playing
  /\ \E n \in CallPool :
       /\ Includes(LateGame, n)
       /\ session.calledNumbers = FilterOut(LateGame, n)
       /\ LET withN == applyCalledNumbersToCards(selectedCards,
                         Append(session.calledNumbers, n))
          IN \E ci \in 1..Len(withN) : \E pi \in 1..Len(selectedPatterns) :
               /\ checkPattern(withN[ci], selectedPatterns[pi])
               /\ ~checkPattern(markedCards[ci], selectedPatterns[pi])
       /\ gameStateStore = gameStateOf(session)

\* C28: a pattern savePattern has saved without error is returned by every
\* later getAllPatterns with the name and grid saved, until deletePattern
\* deletes it or a savePattern with its id replaces it; saving or deleting
\* another pattern does not remove it.
C28_SavedPatternIsPersisted ==
  [][(lastCall'.op \in {"savePattern", "deletePattern"} /\ lastCall'.error = "") =>
       /\ lastCall'.op = "savePattern" =>
            \E j \in 1..Len(getAllPatterns(patternStore')) :
              getAllPatterns(patternStore')[j] = patternStore'[Len(patternStore')]
       /\ \A i \in 1..Len(patternStore) :
            patternStore[i].id # lastCall'.id =>
              \E j \in 1..Len(getAllPatterns(patternStore')) :
                getAllPatterns(patternStore')[j] = patternStore[i]]_vars

\* savePattern has just stored, without error, a pattern named Full House
\* that getAllPatterns does not return
C28_Witness ==
  /\ lastCall.op = "savePattern"
  /\ lastCall.error = ""
  /\ lastCall.id = "p_house"
  /\ patternStore # <<>>
  /\ patternStore[Len(patternStore)].id = "p_house"
  /\ \A j \in 1..Len(getAllPatterns(patternStore)) :
       getAllPatterns(patternStore)[j].id # "p_house"

\* C29: every card the app can create, generated or made in the manual
\* creator, passes the import validator validateCard once exportData has
\* written it, so that importing an unmodified export never fails and
\* leaves every exported card in the card list.
C29_ExportedCardsPassImportValidation ==
  /\ \A k \in 1..Len(cardStore) : validateCard(exportedCards(cardStore)[k])
  /\ alertShown # "Import Failed"
  /\ alertShown = "Successfully imported" =>
       \A k \in 1..Len(cardStore) : parsedCard(exportedCards(cardStore)[k]) = cardStore[k]

\* the import of an unmodified export of a generated card has just failed
C29_Witness ==
  /\ alertShown = "Import Failed"
  /\ Len(cardStore) = 1
  /\ cardStore[1].id \in Range(GeneratedIds)
  /\ validateBingoCard(cardStore[1])
  /\ ~validateCard(exportedCards(cardStore)[1])


\* every saveCard call that callNumber started has completed
AllSavesCompleted ==
  /\ exampleGame # NoGame
  /\ exampleGame.saves # <<>>
  /\ SavesInFlight = {}

\* C30: saveCard is safe under interleaving: once every saveCard call that
\* updatedCards.forEach(card => saveCard(card)) started has completed, the
\* stored card list contains every one of the saved cards.
C30_ConcurrentSavesKeepEveryCard ==
  AllSavesCompleted =>
    \A k \in 1..Len(exampleGame.saves) :
      Includes(cardStore, exampleGame.saves[k].card)

\* two saves have completed, the number was on the first card, and the stored
\* list holds that card without the mark its saveCard call wrote
C30_Witness ==
  /\ AllSavesCompleted
  /\ Len(exampleGame.saves) = 2
  /\ ~Includes(cardStore, exampleGame.saves[1].card)
  /\ \E k \in 1..Len(cardStore) :
       /\ cardStore[k].id = exampleGame.saves[1].card.id
       /\ cardStore[k] # exampleGame.saves[1].card

====
